---------------------------- MODULE Spec2Model ----------------------------
(***************************************************************************)
(* RISC-V vector extension of QEMU (target/riscv): the vtype/vl resolver   *)
(* (helper vsetvl), the translator's register-group legality checks        *)
(* (insn_trans/trans_rvv.inc.c) and the element memory, AMO, integer,     *)
(* fixed-point, reduction, mask and permutation helpers (vector_helper.c), *)
(* as state machines over the architectural state. Element arithmetic is   *)
(* modelled at SEW = 8 and 16.                                             *)
(*                                                                         *)
(* Quantities the C code keeps in a float (flmul, emul) are always powers  *)
(* of two; they are represented by their exponent, and the conversions to  *)
(* unsigned/int that the code performs are the operators F2U and F2I.      *)
(* The host is little-endian (the H1..H8 macros are the identity).         *)
(***************************************************************************)
EXTENDS Integers, Sequences, FiniteSets, TLC

(* ------------------------------------------------------------------ *)
(* Program constants                                                   *)
(* ------------------------------------------------------------------ *)
NVPR == 32
\* cpu->cfg.vlen and cpu->cfg.elen (bits)
VLEN == 128
ELEN == 64
\* s1 of "vsetvl rd, x0, rs2" with rd # x0: any value >= VLMAX
RV_VLEN_MAX == 1024
VLENB == VLEN \div 8

(* ------------------------------------------------------------------ *)
(* Bounds of the model                                                 *)
(* ------------------------------------------------------------------ *)
\* largest application vector length read from a scalar register
MaxAVL == 6
\* largest vsew field value offered to vsetvl (4 encodes SEW = 128 > ELEN)
MaxVsewField == 4
\* guest pages of the modelled address space, and bytes per page
NumPages == 3
PageSize == 16

\* largest vl of the states the memory instructions start from
MaxMemVL == 3

VARIABLES vtype, vl, vstart, mstatus_vs, vreg, mem, mapped, user_only, pc, last,
          vxsat, vxrm

vars == <<vtype, vl, vstart, mstatus_vs, vreg, mem, mapped, user_only, pc, last,
          vxsat, vxrm>>

(* ------------------------------------------------------------------ *)
(* Arithmetic helpers                                                  *)
(* ------------------------------------------------------------------ *)
Pow2(n) == 2 ^ n
MIN(a, b) == IF a < b THEN a ELSE b
MAX(a, b) == IF a > b THEN a ELSE b
\* conversion of the float 2^e to unsigned / int (truncation toward zero)
F2U(e) == IF e < 0 THEN 0 ELSE Pow2(e)
F2I(e) == IF e < 0 THEN 0 ELSE Pow2(e)
\* binary logarithm of a power of two
RECURSIVE Log2(_)
Log2(n) == IF n <= 1 THEN 0 ELSE 1 + Log2(n \div 2)
\* sextract32(x, 0, 3)
sextract3(x) == IF x >= 4 THEN x - 8 ELSE x

(* ------------------------------------------------------------------ *)
(* vtype: the decoded fields of the type bits                          *)
(* ------------------------------------------------------------------ *)
TypeBits(lm, sw, ed, rs, il) ==
    [vlmul |-> lm, vsew |-> sw, ediv |-> ed, reserved |-> rs, vill |-> il]

\* env->vtype = FIELD_DP64(0, VTYPE, VILL, 1)
VillOnly == TypeBits(0, 0, 0, 0, TRUE)
\* the zero-initialised CPU state
ZeroVtype == TypeBits(0, 0, 0, 0, FALSE)

\* VLMAX = (VLEN / SEW) * LMUL = VLEN >> (vsew + 3 - lmul)
vext_get_vlmax(s2) == VLEN \div Pow2(s2.vsew + 3 - sextract3(s2.vlmul))

\* a variant with the clamp of vl to VLMAX dropped
vsetvl_noclamp(s1, s2) ==
    LET lmul == s2.vlmul
        sew  == 8 * Pow2(s2.vsew)
        vill == IF lmul >= 4 /\ (lmul = 4 \/ (ELEN \div Pow2(8 - lmul)) < sew)
                THEN TRUE ELSE s2.vill
    IN IF sew > ELEN \/ vill \/ s2.ediv # 0 \/ s2.reserved # 0
       THEN [vtype |-> VillOnly, vl |-> 0, vstart |-> 0, ret |-> 0]
       ELSE [vtype |-> s2, vl |-> s1, vstart |-> 0, ret |-> s1]

\* the fractional-LMUL test dropped
vsetvl_nofrac(s1, s2) ==
    LET sew  == 8 * Pow2(s2.vsew)
    IN IF sew > ELEN \/ s2.vill \/ s2.ediv # 0 \/ s2.reserved # 0
       THEN [vtype |-> VillOnly, vl |-> 0, vstart |-> 0, ret |-> 0]
       ELSE LET vlmax == vext_get_vlmax(s2)
                nvl   == IF s1 <= vlmax THEN s1 ELSE vlmax
            IN [vtype |-> s2, vl |-> nvl, vstart |-> 0, ret |-> nvl]

\* every configuration with SEW <= ELEN reported illegal
vsetvl_strict(s1, s2) ==
    LET lmul == s2.vlmul
        sew  == 8 * Pow2(s2.vsew)
        vill == IF lmul >= 4 /\ (lmul = 4 \/ (ELEN \div Pow2(8 - lmul)) <= sew)
                THEN TRUE ELSE s2.vill
    IN IF sew > ELEN \/ vill \/ s2.ediv # 0 \/ s2.reserved # 0
       THEN [vtype |-> VillOnly, vl |-> 0, vstart |-> 0, ret |-> 0]
       ELSE LET vlmax == vext_get_vlmax(s2)
                nvl   == IF s1 <= vlmax THEN s1 ELSE vlmax
            IN [vtype |-> s2, vl |-> nvl, vstart |-> 0, ret |-> nvl]

\* the return value taken from vlmax instead of vl
vsetvl_retmax(s1, s2) ==
    LET lmul == s2.vlmul
        sew  == 8 * Pow2(s2.vsew)
        vill == IF lmul >= 4 /\ (lmul = 4 \/ (ELEN \div Pow2(8 - lmul)) < sew)
                THEN TRUE ELSE s2.vill
    IN IF sew > ELEN \/ vill \/ s2.ediv # 0 \/ s2.reserved # 0
       THEN [vtype |-> VillOnly, vl |-> 0, vstart |-> 0, ret |-> 0]
       ELSE LET vlmax == vext_get_vlmax(s2)
                nvl   == IF s1 <= vlmax THEN s1 ELSE vlmax
            IN [vtype |-> s2, vl |-> nvl, vstart |-> 0, ret |-> vlmax]

\* HELPER(vsetvl)(env, s1, s2)
vsetvl(s1, s2) ==
    LET lmul == s2.vlmul
        sew  == 8 * Pow2(s2.vsew)
        vill == IF lmul >= 4 /\ (lmul = 4 \/ (ELEN \div Pow2(8 - lmul)) < sew)
                THEN TRUE ELSE s2.vill
    IN IF sew > ELEN \/ vill \/ s2.ediv # 0 \/ s2.reserved # 0
       THEN [vtype |-> VillOnly, vl |-> 0, vstart |-> 0, ret |-> 0]
       ELSE LET vlmax == vext_get_vlmax(s2)
                nvl   == IF s1 <= vlmax THEN s1 ELSE vlmax
            IN [vtype |-> s2, vl |-> nvl, vstart |-> 0, ret |-> nvl]


(* ------------------------------------------------------------------ *)
(* Guest memory: pages, probes                                         *)
(* ------------------------------------------------------------------ *)
MemSize == NumPages * PageSize

\* the page holding addr is mapped (an address outside the modelled
\* pages, or one that wrapped around, is not)
page_ok(addr) == addr >= 0 /\ addr < MemSize /\ (addr \div PageSize) \in mapped

\* probe_access(env, addr, size, ...): raises the fault of addr's page
probe_access_ok(addr, size) == page_ok(addr)

\* page_check_range(addr, len, PAGE_READ) >= 0
page_check_range_ok(addr, len) == \A b \in 0 .. (len - 1) : page_ok(addr + b)

\* tlb_vaddr_to_host(env, addr, MMU_DATA_LOAD, mmu_idx) # NULL
tlb_vaddr_to_host_ok(addr) == IF user_only THEN TRUE ELSE page_ok(addr)

\* cpu_ld*_data_ra / cpu_st*_data_ra of size bytes at addr does not fault
elem_access_ok(addr, size) == \A b \in 0 .. (size - 1) : page_ok(addr + b)

\* probe_pages(env, addr, len, ra, access_type) returns (no fault raised)
probe_pages_ok(addr, len) ==
    LET pagelen == PageSize - (addr % PageSize)
        curlen  == MIN(pagelen, len)
    IN /\ probe_access_ok(addr, curlen)
       /\ (len > curlen) => probe_access_ok(addr + curlen, len - curlen)

(* ------------------------------------------------------------------ *)
(* Vector register file: NVPR registers of VLENB bytes                 *)
(* ------------------------------------------------------------------ *)
VregBytes == 0 .. (NVPR * VLENB - 1)

\* vext_elem_mask(v0, index)
vext_elem_mask(rf, index) == (rf[index \div 8] \div Pow2(index % 8)) % 2

\* *((ETYPE *)vreg + idx) read as an unsigned little-endian value
RECURSIVE reg_elem(_, _, _, _)
reg_elem(rf, reg, idx, esz) ==
    IF esz = 0 THEN 0
    ELSE rf[reg * VLENB + idx] + 256 * reg_elem(rf, reg, idx + 1, esz - 1)

\* idx_b / idx_h / idx_w / idx_d: base + *((ETYPE *)vs2 + H(idx)), ETYPE signed
get_index_addr(base, idx, rf, vs2, isz) ==
    LET u == reg_elem(rf, vs2, idx * isz, isz)
        m == Pow2(8 * isz)
    IN base + (IF 2 * u >= m THEN u - m ELSE u)

\* lde_b .. lde_d: load element idx of the group at vd from memory
lde(st, addr, idx, vd, esz) ==
    LET start == vd * VLENB + idx * esz
    IN [st EXCEPT !.vreg = [b \in VregBytes |->
                               IF b >= start /\ b < start + esz
                               THEN st.mem[addr + (b - start)]
                               ELSE st.vreg[b]]]

\* ste_b .. ste_d: store element idx of the group at vd to memory
ste(st, addr, idx, vd, esz) ==
    LET start == vd * VLENB + idx * esz
    IN [st EXCEPT !.mem = [a \in DOMAIN st.mem |->
                              IF a >= addr /\ a < addr + esz
                              THEN st.vreg[start + (a - addr)]
                              ELSE st.mem[a]]]

ldst_elem(P, st, addr, idx) ==
    IF P.is_store THEN ste(st, addr, idx, P.vd, P.esz)
    ELSE lde(st, addr, idx, P.vd, P.esz)

\* the element is active: !(!vm && !vext_elem_mask(v0, i))
elem_active(P, rf, i) == P.vm = 1 \/ vext_elem_mask(rf, i) = 1

\* address of field k of element i, per addressing mode
elem_addr(P, rf, i, k) ==
    CASE P.mode = "us"     -> P.base + (i * P.nf + k) * P.esz
      [] P.mode = "ff"     -> P.base + (i * P.nf + k) * P.msz
      [] P.mode = "stride" -> P.base + P.stride * i + k * P.esz
      [] P.mode = "index"  ->
            get_index_addr(P.base, i, rf, P.vs2, P.isz) + k * P.esz

\* the second loop of the helpers ("do real access"): element accesses
\* in order, unwinding at the first access that faults
RECURSIVE access_loop(_, _, _, _)
access_loop(P, st, i, k) ==
    IF i >= st.vl THEN st
    ELSE IF ~elem_active(P, st.vreg, i) THEN access_loop(P, st, i + 1, 0)
    ELSE IF k >= P.nf THEN access_loop(P, st, i + 1, 0)
    ELSE LET addr == elem_addr(P, st.vreg, i, k)
         IN IF ~elem_access_ok(addr, P.esz)
            THEN [st EXCEPT !.fault = TRUE]
            ELSE access_loop(P, ldst_elem(P, st, addr, i + k * P.vlmax),
                             i, k + 1)

\* the first loop of vext_ldst_stride / vext_ldst_index ("probe every access")
probe_loop_ok(P, st) ==
    \A i \in 0 .. (st.vl - 1) :
        elem_active(P, st.vreg, i) =>
            probe_pages_ok(elem_addr(P, st.vreg, i, 0), P.nf * P.esz)

\* vext_ldst_stride with the probe loop dropped
vext_ldst_stride_noprobe(P, st) == access_loop(P, st, 0, 0)

\* vext_ldst_stride(vd, v0, base, stride, env, desc, vm, ldst_elem, esz, ...)
vext_ldst_stride(P, st) ==
    IF ~probe_loop_ok(P, st) THEN [st EXCEPT !.fault = TRUE]
    ELSE access_loop(P, st, 0, 0)

\* vext_ldst_index(vd, v0, base, vs2, env, desc, get_index_addr, ...)
vext_ldst_index(P, st) ==
    IF ~probe_loop_ok(P, st) THEN [st EXCEPT !.fault = TRUE]
    ELSE access_loop(P, st, 0, 0)

\* vext_ldst_us(vd, base, env, desc, ldst_elem, esz, ra, access_type)
vext_ldst_us(P, st) ==
    IF ~probe_pages_ok(P.base, st.vl * P.nf * P.esz)
    THEN [st EXCEPT !.fault = TRUE]
    ELSE access_loop(P, st, 0, 0)

(* ------------------------------------------------------------------ *)
(* Unit-stride fault-only-first load                                   *)
(* ------------------------------------------------------------------ *)
\* the while (remain > 0) loop of vext_ldff for one element i >= 1:
\* "ok" (loop left by break), "trunc" (vl = i; goto ProbeSuccess) or
\* "fault" (probe_pages raised)
RECURSIVE ldff_while(_, _, _)
ldff_while(P, addr, remain) ==
    LET offset == PageSize - (addr % PageSize)
        len    == P.nf * P.msz
        next   == IF remain <= offset THEN "ok"
                  ELSE ldff_while(P, addr + offset, remain - offset)
    IN IF tlb_vaddr_to_host_ok(addr)
       THEN IF user_only
            THEN (IF ~page_check_range_ok(addr, len) THEN "trunc" ELSE next)
            ELSE (IF ~probe_pages_ok(addr, len) THEN "fault" ELSE next)
       ELSE "trunc"

\* the probe loop of vext_ldff from element i on: the local vl at the
\* label ProbeSuccess (0 when the loop ran to its end), or a raised fault
RECURSIVE ldff_probe(_, _, _)
ldff_probe(P, st, i) ==
    IF i >= st.vl THEN [fault |-> FALSE, vl |-> 0]
    ELSE IF ~elem_active(P, st.vreg, i) THEN ldff_probe(P, st, i + 1)
    ELSE LET addr == P.base + P.nf * i * P.msz
         IN IF i = 0
            THEN (IF probe_pages_ok(addr, P.nf * P.msz)
                  THEN ldff_probe(P, st, i + 1)
                  ELSE [fault |-> TRUE, vl |-> 0])
            ELSE LET r == ldff_while(P, addr, P.nf * P.msz)
                 IN CASE r = "ok"    -> ldff_probe(P, st, i + 1)
                      [] r = "trunc" -> [fault |-> FALSE, vl |-> i]
                      [] r = "fault" -> [fault |-> TRUE, vl |-> 0]

\* vext_ldff that returns silently when the probe of element 0 fails
vext_ldff_quiet0(P, st) ==
    LET pr == ldff_probe(P, st, 0)
    IN IF pr.fault /\ elem_active(P, st.vreg, 0)
                   /\ ~probe_pages_ok(P.base, P.nf * P.msz)
       THEN st
       ELSE IF pr.fault THEN [st EXCEPT !.fault = TRUE]
       ELSE access_loop(P, [st EXCEPT !.vl = IF pr.vl # 0 THEN pr.vl ELSE @],
                        0, 0)

\* vext_ldff(vd, v0, base, env, desc, ldst_elem, esz, msz, ra)
vext_ldff(P, st) ==
    LET pr == ldff_probe(P, st, 0)
    IN IF pr.fault THEN [st EXCEPT !.fault = TRUE]
       ELSE access_loop(P, [st EXCEPT !.vl = IF pr.vl # 0 THEN pr.vl ELSE @],
                        0, 0)

(* ------------------------------------------------------------------ *)
(* Translator: DisasContext and the legality checks of memory          *)
(* instructions                                                        *)
(* ------------------------------------------------------------------ *)
\* the DisasContext fields the checks read, derived from env at the
\* start of a translation block; s->flmul is 2^lmul
DisasContext ==
    [mstatus_vs |-> mstatus_vs, vill |-> vtype.vill, sew |-> vtype.vsew,
     lmul |-> sextract3(vtype.vlmul)]

\* a & b on naturals
RECURSIVE BitAnd(_, _)
BitAnd(a, b) ==
    IF a = 0 \/ b = 0 THEN 0
    ELSE (a % 2) * (b % 2) + 2 * BitAnd(a \div 2, b \div 2)

\* a variant that never tests the low bits
is_aligned_any(val, pos) == TRUE

is_aligned(val, pos) == IF pos # 0 THEN BitAnd(val, pos - 1) = 0 ELSE TRUE

is_overlapped(astart, asize0, bstart, bsize0) ==
    LET asize == IF asize0 = 0 THEN 1 ELSE asize0
        bsize == IF bsize0 = 0 THEN 1 ELSE bsize0
        aend  == astart + asize
        bend  == bstart + bsize
    IN MAX(aend, bend) - MIN(astart, bstart) < asize + bsize

\* a variant that lets a source overlap anywhere above the start of the
\* destination
is_overlapped_widen_above(astart, asize0, bstart, bsize0) ==
    LET asize == IF asize0 = 0 THEN 1 ELSE asize0
        bsize == IF bsize0 = 0 THEN 1 ELSE bsize0
        aend  == astart + asize
        bend  == bstart + bsize
    IN IF astart < bstart /\ is_overlapped(astart, asize, bstart, bsize)
       THEN FALSE
       ELSE MAX(aend, bend) - MIN(astart, bstart) < asize + bsize

is_overlapped_widen(astart, asize0, bstart, bsize0) ==
    LET asize == IF asize0 = 0 THEN 1 ELSE asize0
        bsize == IF bsize0 = 0 THEN 1 ELSE bsize0
        aend  == astart + asize
        bend  == bstart + bsize
    IN IF /\ astart < bstart
          /\ is_overlapped(astart, asize, bstart, bsize)
          /\ ~is_overlapped(astart, asize, bstart + bsize, bsize)
       THEN FALSE
       ELSE MAX(aend, bend) - MIN(astart, bstart) < asize + bsize

require_rvv(s) == s.mstatus_vs # 0
require_vm(vm, rd) == vm # 0 \/ rd # 0
require_align(val, pos) == is_aligned(val, pos)
require_noover(astart, asize, bstart, bsize) ==
    ~is_overlapped(astart, asize, bstart, bsize)
require_noover_widen(astart, asize, bstart, bsize) ==
    ~is_overlapped_widen(astart, asize, bstart, bsize)

vext_check_isa_ill(s) == ~s.vill

\* exponent of emul = (float)eew / (1 << (s->sew + 3)) * s->flmul
emul_of(s, eew) == Log2(eew) - (s.sew + 3) + s.lmul

vext_check_store(s, vd, nf, eew) ==
    LET emul   == emul_of(s, eew)
        emul_r == IF emul < 0 THEN 1 ELSE F2U(emul)
    IN /\ emul >= -3 /\ emul <= 3
       /\ require_align(vd, F2U(emul))
       /\ nf * emul_r <= NVPR \div 4
       /\ vd + nf * emul_r <= NVPR

vext_check_load(s, vd, nf, vm, eew) ==
    vext_check_store(s, vd, nf, eew) /\ require_vm(vm, vd)

vext_check_st_index(s, vd, vs2, nf, eew) ==
    LET emul    == emul_of(s, eew)
        flmul_r == IF s.lmul < 0 THEN 1 ELSE F2U(s.lmul)
    IN /\ emul >= -3 /\ emul <= 3
       /\ require_align(vs2, F2U(emul))
       /\ require_align(vd, F2U(s.lmul))
       /\ nf * flmul_r <= NVPR \div 4
       /\ vd + nf * flmul_r <= NVPR

vext_check_ld_index(s, vd, vs2, nf, vm, eew) ==
    LET emul == emul_of(s, eew)
        sewb == Pow2(s.sew + 3)
        ret0 == vext_check_st_index(s, vd, vs2, nf, eew) /\ require_vm(vm, vd)
        ret1 == IF eew > sewb
                THEN (IF vd # vs2
                      THEN require_noover(vd, F2I(s.lmul), vs2, F2I(emul))
                      ELSE TRUE)
                ELSE IF eew < sewb
                THEN (IF emul < 0
                      THEN require_noover(vd, F2I(s.lmul), vs2, F2I(emul))
                      ELSE require_noover_widen(vd, F2I(s.lmul), vs2, F2I(emul)))
                ELSE TRUE
        ret2 == IF nf > 1
                THEN /\ require_noover(vd, F2I(s.lmul), vs2, F2I(emul))
                     /\ require_noover(vd, nf, vs2, 1)
                ELSE TRUE
    IN ret0 /\ ret1 /\ ret2

ld_us_check(s, rd, nf, vm, eew) ==
    require_rvv(s) /\ vext_check_isa_ill(s) /\ vext_check_load(s, rd, nf, vm, eew)
st_us_check(s, rd, nf, eew) ==
    require_rvv(s) /\ vext_check_isa_ill(s) /\ vext_check_store(s, rd, nf, eew)
ld_stride_check(s, rd, nf, vm, eew) ==
    require_rvv(s) /\ vext_check_isa_ill(s) /\ vext_check_load(s, rd, nf, vm, eew)
st_stride_check(s, rd, nf, eew) ==
    require_rvv(s) /\ vext_check_isa_ill(s) /\ vext_check_store(s, rd, nf, eew)
ld_index_check(s, rd, rs2, nf, vm, eew) ==
    /\ require_rvv(s) /\ vext_check_isa_ill(s)
    /\ vext_check_ld_index(s, rd, rs2, nf, vm, eew)
st_index_check(s, rd, rs2, nf, eew) ==
    /\ require_rvv(s) /\ vext_check_isa_ill(s)
    /\ vext_check_st_index(s, rd, rs2, nf, eew)

\* vext_maxsz(desc) = simd_maxsz(desc) << vext_lmul(desc): the values the
\* shift can produce; a negative count is undefined (0 when the hardware
\* masks the count, the right shift when it is taken as signed)
vext_maxsz(lmul) ==
    IF lmul >= 0 THEN {VLENB * Pow2(lmul)}
    ELSE {0, VLENB \div Pow2(0 - lmul)}

(* ------------------------------------------------------------------ *)
(* Instructions                                                        *)
(* ------------------------------------------------------------------ *)
\* the architectural state a helper works on
Env == [vreg |-> vreg, mem |-> mem, fault |-> FALSE, vl |-> vl,
        vxsat |-> vxsat, vxrm |-> vxrm]

\* the operands of a helper call: desc fields, base, stride, element sizes
Desc(mode, st, vd, vs2, nf, vm, esz, isz, base, stride, mz) ==
    [mode |-> mode, is_store |-> st, vd |-> vd, vs2 |-> vs2, nf |-> nf,
     vm |-> vm, esz |-> esz, msz |-> esz, isz |-> isz, base |-> base,
     stride |-> stride, vlmax |-> mz \div esz]

\* GEN_VEXT_TRANS: an instruction whose check fails is an illegal
\* instruction; ldst_*_trans branches over the helper call when vl = 0
Execute(op, ok, P, st1) ==
    /\ pc' = IF pc \in {"ready", "exe", "exe2"} THEN "done" ELSE pc
    /\ vreg' = st1.vreg
    /\ mem' = st1.mem
    /\ vl' = st1.vl
    /\ last' = [op |-> op, accepted |-> ok, fault |-> st1.fault, P |-> P,
                 vl0 |-> vl]
    /\ UNCHANGED <<vtype, vstart, mstatus_vs, mapped, user_only, vxsat, vxrm>>

\* the footprint of one instruction fits a page (8 * VLENB bytes at most
\* against TARGET_PAGE_SIZE in the program)
FitsPage(nf, esz) == vl * nf * esz <= PageSize

\* vle<eew>.v: HELPER(NAME) when vm = 1, HELPER(NAME##_mask) when vm = 0
trans_vle_v(rd, base, nf, vm, seq, mz) ==
    LET s   == DisasContext
        esz == Pow2(seq)
        P   == IF vm = 1
               THEN Desc("us", FALSE, rd, 0, nf, 1, esz, 0, base, 0, mz)
               ELSE Desc("stride", FALSE, rd, 0, nf, 0, esz, 0, base,
                         nf * esz, mz)
        ok  == ld_us_check(s, rd, nf, vm, 8 * esz)
    IN /\ pc \in {"ready", "exe", "exe2"} /\ FitsPage(nf, esz)
       /\ Execute("vle", ok, P,
                  IF ok /\ vl # 0
                  THEN (IF vm = 1 THEN vext_ldst_us(P, Env)
                        ELSE vext_ldst_stride(P, Env))
                  ELSE Env)

\* vse<eew>.v
trans_vse_v(rd, base, nf, vm, seq, mz) ==
    LET s   == DisasContext
        esz == Pow2(seq)
        P   == IF vm = 1
               THEN Desc("us", TRUE, rd, 0, nf, 1, esz, 0, base, 0, mz)
               ELSE Desc("stride", TRUE, rd, 0, nf, 0, esz, 0, base,
                         nf * esz, mz)
        ok  == st_us_check(s, rd, nf, 8 * esz)
    IN /\ pc = "ready" /\ FitsPage(nf, esz)
       /\ Execute("vse", ok, P,
                  IF ok /\ vl # 0
                  THEN (IF vm = 1 THEN vext_ldst_us(P, Env)
                        ELSE vext_ldst_stride(P, Env))
                  ELSE Env)

\* vlse<eew>.v
trans_vlse_v(rd, base, stride, nf, vm, seq, mz) ==
    LET s   == DisasContext
        esz == Pow2(seq)
        P   == Desc("stride", FALSE, rd, 0, nf, vm, esz, 0, base, stride, mz)
        ok  == ld_stride_check(s, rd, nf, vm, 8 * esz)
    IN /\ pc = "ready" /\ FitsPage(nf, esz)
       /\ Execute("vlse", ok, P,
                  IF ok /\ vl # 0 THEN vext_ldst_stride(P, Env) ELSE Env)

\* vsse<eew>.v
trans_vsse_v(rd, base, stride, nf, vm, seq, mz) ==
    LET s   == DisasContext
        esz == Pow2(seq)
        P   == Desc("stride", TRUE, rd, 0, nf, vm, esz, 0, base, stride, mz)
        ok  == st_stride_check(s, rd, nf, 8 * esz)
    IN /\ pc = "ready" /\ FitsPage(nf, esz)
       /\ Execute("vsse", ok, P,
                  IF ok /\ vl # 0 THEN vext_ldst_stride(P, Env) ELSE Env)

\* vlxei<eew>.v: fns[seq][s->sew], index elements of eew bits, data of SEW
trans_vlxei_v(rd, base, rs2, nf, vm, seq, mz) ==
    LET s   == DisasContext
        esz == Pow2(s.sew)
        P   == Desc("index", FALSE, rd, rs2, nf, vm, esz, Pow2(seq), base, 0,
                    mz)
        ok  == ld_index_check(s, rd, rs2, nf, vm, 8 * Pow2(seq))
    IN /\ pc = "ready" /\ FitsPage(nf, esz)
       /\ Execute("vlxei", ok, P,
                  IF ok /\ vl # 0 THEN vext_ldst_index(P, Env) ELSE Env)

\* vsxei<eew>.v
trans_vsxei_v(rd, base, rs2, nf, vm, seq, mz) ==
    LET s   == DisasContext
        esz == Pow2(s.sew)
        P   == Desc("index", TRUE, rd, rs2, nf, vm, esz, Pow2(seq), base, 0,
                    mz)
        ok  == st_index_check(s, rd, rs2, nf, 8 * Pow2(seq))
    IN /\ pc = "ready" /\ FitsPage(nf, esz)
       /\ Execute("vsxei", ok, P,
                  IF ok /\ vl # 0 THEN vext_ldst_index(P, Env) ELSE Env)

\* vle<eew>ff.v
trans_vleff_v(rd, base, nf, vm, seq, mz) ==
    LET s   == DisasContext
        esz == Pow2(seq)
        P   == Desc("ff", FALSE, rd, 0, nf, vm, esz, 0, base, 0, mz)
        ok  == ld_us_check(s, rd, nf, vm, 8 * esz)
    IN /\ pc \in {"ready", "cfg"} /\ FitsPage(nf, esz)
       /\ Execute("vleff", ok, P,
                  IF ok /\ vl # 0 THEN vext_ldff(P, Env) ELSE Env)

\* a variant without the "keep vl" form: rd = x0 and rs1 = x0 request
\* the maximum like any other rs1 = x0
vsetvl_s1_nokeep(rd, rs1, x_rs1) ==
    IF rs1 = 0 THEN RV_VLEN_MAX
    ELSE x_rs1

\* the s1 operand trans_vsetvl / trans_vsetvli hand to the helper
vsetvl_s1(rd, rs1, x_rs1) ==
    IF rd = 0 /\ rs1 = 0 THEN vl
    ELSE IF rs1 = 0 THEN RV_VLEN_MAX
    ELSE x_rs1

\* the effect of gen_helper_vsetvl on env, and the value written to rd
SetConfig(op, rd, rs1, x_rs1, s2) ==
    LET s  == DisasContext
        s1 == vsetvl_s1(rd, rs1, x_rs1)
        r  == vsetvl(s1, s2)
    IN IF ~require_rvv(s)
       THEN /\ last' = [op |-> op, accepted |-> FALSE, s1 |-> s1, s2 |-> s2,
                        ret |-> 0]
            /\ UNCHANGED <<vtype, vl, vstart>>
       ELSE /\ vtype' = r.vtype
            /\ vl' = r.vl
            /\ vstart' = r.vstart
            /\ last' = [op |-> op, accepted |-> TRUE, s1 |-> s1, s2 |-> s2,
                        ret |-> r.ret]

\* vsetvl rd, rs1, rs2: the type bits come from x[rs2]
trans_vsetvl(rd, rs1, x_rs1, x_rs2) ==
    /\ pc \in {"cfg", "chk"}
    /\ SetConfig("vsetvl", rd, rs1, x_rs1, x_rs2)
    /\ UNCHANGED <<mstatus_vs, vreg, mem, mapped, user_only, pc, vxsat, vxrm>>

\* vsetvli rd, rs1, zimm: the type bits are the immediate, which cannot
\* reach the vill bit
trans_vsetvli(rd, rs1, x_rs1, zimm) ==
    /\ pc \in {"cfg", "chk"}
    /\ SetConfig("vsetvli", rd, rs1, x_rs1, zimm)
    /\ UNCHANGED <<mstatus_vs, vreg, mem, mapped, user_only, pc, vxsat, vxrm>>

(* ------------------------------------------------------------------ *)
(* Specification of configuration sequences: vsetvl, vsetvli and       *)
(* fault-only-first loads from the reset state                         *)
(* ------------------------------------------------------------------ *)
\* type bits offered to the configuration instructions
CleanTypeBits ==
    {TypeBits(lm, sw, 0, 0, FALSE) : lm \in 0 .. 7, sw \in 0 .. MaxVsewField}
FlaggedTypeBits ==
    {TypeBits(lm, sw, f[1], f[2], f[3]) :
        lm \in {0, 7}, sw \in {0, 2},
        f \in {<<1, 0, FALSE>>, <<0, 1, FALSE>>, <<0, 0, TRUE>>}}
CfgTypeBits == CleanTypeBits \cup FlaggedTypeBits

\* type bits offered as the immediate of vsetvli
CfgZimms ==
    {TypeBits(lm, sw, 0, rs, FALSE) : lm \in {0, 1, 6}, sw \in {0, 2},
                                      rs \in {0, 1}}

\* <<rd, rs1, x[rs1]>> of the configuration instructions: a length
\* request read from a register, the "maximum" form and the "keep vl"
\* form; x0 reads as zero
CfgOperands ==
    {<<1, 1, x>> : x \in {0, 1, MaxAVL \div 2, MaxAVL}}
      \cup {<<0, 1, MaxAVL>>, <<1, 0, 0>>, <<0, 0, 0>>}

\* register file with the mask byte m in v0, byte d everywhere else, and
\* the index bytes ix at the start of v16
RegFile(m, d, ix) ==
    [b \in VregBytes |->
        IF b = 0 THEN m
        ELSE IF b >= 16 * VLENB /\ b < 16 * VLENB + Len(ix)
             THEN ix[b - 16 * VLENB + 1]
        ELSE IF b < VLENB THEN 0
        ELSE d]

\* the first page mapped alone, or every page
CfgMapped == {{0}, 0 .. (NumPages - 1)}

CfgBases == {0, PageSize - 3}

InitCfg ==
    /\ vtype = ZeroVtype
    /\ vl = 0
    /\ vstart = 0
    /\ mstatus_vs = 1
    /\ vreg = RegFile(5, 0, <<>>)
    /\ mem = [a \in 0 .. (MemSize - 1) |-> 0]
    /\ mapped \in CfgMapped
    /\ user_only \in BOOLEAN
    /\ pc = "cfg"
    /\ last = [op |-> "none"]
    /\ vxsat = 0
    /\ vxrm = 0

NextCfg ==
    \/ \E o \in CfgOperands, s2 \in CfgTypeBits :
          trans_vsetvl(o[1], o[2], o[3], s2)
    \/ \E o \in CfgOperands, zimm \in CfgZimms :
          trans_vsetvli(o[1], o[2], o[3], zimm)
    \/ \E base \in CfgBases, vm \in {0, 1}, seq \in {0, 1} :
          \E mz \in vext_maxsz(DisasContext.lmul) :
             trans_vleff_v(8, base, 1, vm, seq, mz)

SpecCfg == InitCfg /\ [][NextCfg]_vars

(* ------------------------------------------------------------------ *)
(* Specification of one memory instruction executed from a configured  *)
(* state                                                               *)
(* ------------------------------------------------------------------ *)
MemTypeBits == {TypeBits(0, 0, 0, 0, FALSE), TypeBits(7, 1, 0, 0, FALSE)}
MaskBytes == {5, 6}
IndexBytes == <<2, 0, PageSize - 2, 0, 255, 255>>
MemBases == {0, PageSize - 3, 2 * PageSize - 2}
MemStrides == {5, PageSize}

InitMem ==
    /\ vtype \in MemTypeBits
    /\ vl \in 0 .. MaxMemVL
    /\ vstart = 0
    /\ mstatus_vs = 1
    /\ \E m \in MaskBytes : vreg = RegFile(m, 170, IndexBytes)
    /\ mem = [a \in 0 .. (MemSize - 1) |-> (7 * a + 1) % 256]
    /\ mapped \in SUBSET (0 .. (NumPages - 1))
    /\ user_only \in BOOLEAN
    /\ pc = "ready"
    /\ last = [op |-> "none"]
    /\ vxsat = 0
    /\ vxrm = 0

MemOperands ==
    {<<base, nf, vm, seq>> :
        base \in MemBases, nf \in {1, 2}, vm \in {0, 1}, seq \in {0, 1}}

NextMem ==
    \/ \E o \in MemOperands, mz \in vext_maxsz(DisasContext.lmul) :
          trans_vle_v(8, o[1], o[2], o[3], o[4], mz)
    \/ \E o \in MemOperands, mz \in vext_maxsz(DisasContext.lmul) :
          trans_vse_v(8, o[1], o[2], o[3], o[4], mz)
    \/ \E o \in MemOperands, mz \in vext_maxsz(DisasContext.lmul),
          stride \in MemStrides :
          trans_vlse_v(8, o[1], stride, o[2], o[3], o[4], mz)
    \/ \E o \in MemOperands, mz \in vext_maxsz(DisasContext.lmul),
          stride \in MemStrides :
          trans_vsse_v(8, o[1], stride, o[2], o[3], o[4], mz)
    \/ \E o \in MemOperands, mz \in vext_maxsz(DisasContext.lmul) :
          trans_vlxei_v(8, o[1], 16, o[2], o[3], o[4], mz)
    \/ \E o \in MemOperands, mz \in vext_maxsz(DisasContext.lmul) :
          trans_vsxei_v(8, o[1], 16, o[2], o[3], o[4], mz)
    \/ \E o \in MemOperands, mz \in vext_maxsz(DisasContext.lmul) :
          trans_vleff_v(8, o[1], o[2], o[3], o[4], mz)

SpecMem == InitMem /\ [][NextMem]_vars

(* ------------------------------------------------------------------ *)
(* Translator: the legality checks of the other instruction formats    *)
(* ------------------------------------------------------------------ *)
\* has_ext(s, RVA), has_ext(s, RVF), s->mstatus_fs != 0: the modelled
\* hart has the A and F extensions with the FPU enabled
has_ext_RVA == TRUE
has_ext_RVF == TRUE
mstatus_fs_on == TRUE
\* sizeof(target_ulong) of the 64-bit target
TARGET_LONG_BYTES == 8

vext_check_amo(s, vd, vs2, wd, vm, eew) ==
    LET emul == emul_of(s, eew)
        sewb == Pow2(s.sew + 3)
        ret0 == /\ has_ext_RVA
                /\ Pow2(s.sew) >= 4
                /\ Pow2(s.sew) <= TARGET_LONG_BYTES
                /\ eew <= TARGET_LONG_BYTES * 8
                /\ require_align(vd, F2U(s.lmul))
                /\ require_align(vs2, F2U(emul))
                /\ emul >= -3 /\ emul <= 3
        ret1 == IF wd = 0 THEN TRUE
                ELSE /\ require_vm(vm, vd)
                     /\ IF eew > sewb
                        THEN (IF vd # vs2
                              THEN require_noover(vd, F2I(s.lmul), vs2,
                                                  F2I(emul))
                              ELSE TRUE)
                        ELSE IF eew < sewb
                        THEN (IF emul < 0
                              THEN require_noover(vd, F2I(s.lmul), vs2,
                                                  F2I(emul))
                              ELSE require_noover_widen(vd, F2I(s.lmul), vs2,
                                                        F2I(emul)))
                        ELSE TRUE
    IN ret0 /\ ret1

vext_check_sss(s, vd, vs1, vs2, vm, is_vs1) ==
    /\ require_vm(vm, vd)
    /\ (s.lmul > 0) =>
          /\ require_align(vd, F2U(s.lmul))
          /\ require_align(vs2, F2U(s.lmul))
          /\ is_vs1 => require_align(vs1, F2U(s.lmul))

vext_check_mss(s, vd, vs1, vs2, is_vs1) ==
    /\ require_align(vs2, F2U(s.lmul))
    /\ (vd # vs2) => require_noover(vd, 1, vs2, F2I(s.lmul))
    /\ is_vs1 =>
          /\ (vd # vs1) => require_noover(vd, 1, vs1, F2I(s.lmul))
          /\ require_align(vs1, F2U(s.lmul))

\* a variant without the bound on LMUL
vext_wide_check_common_nolmul(s, vd, vm) ==
    /\ s.sew < 3
    /\ require_align(vd, F2U(s.lmul + 1))
    /\ require_vm(vm, vd)

vext_wide_check_common(s, vd, vm) ==
    /\ s.lmul <= 2
    /\ s.sew < 3
    /\ require_align(vd, F2U(s.lmul + 1))
    /\ require_vm(vm, vd)

vext_narrow_check_common(s, vd, vs2, vm) ==
    /\ s.lmul <= 2
    /\ s.sew < 3
    /\ require_align(vs2, F2U(s.lmul + 1))
    /\ require_align(vd, F2U(s.lmul))
    /\ require_vm(vm, vd)

\* the overlap rule of a double-width destination against a source
\* of width LMUL
widen_noover(s, vd, vs) ==
    IF s.lmul < 0
    THEN require_noover(vd, F2I(s.lmul + 1), vs, F2I(s.lmul))
    ELSE require_noover_widen(vd, F2I(s.lmul + 1), vs, F2I(s.lmul))

vext_check_dss(s, vd, vs1, vs2, vm, is_vs1) ==
    /\ vext_wide_check_common(s, vd, vm)
    /\ require_align(vs2, F2U(s.lmul))
    /\ widen_noover(s, vd, vs2)
    /\ is_vs1 => (require_align(vs1, F2U(s.lmul)) /\ widen_noover(s, vd, vs1))

vext_check_dds(s, vd, vs1, vs2, vm, is_vs1) ==
    /\ vext_wide_check_common(s, vd, vm)
    /\ require_align(vs2, F2U(s.lmul + 1))
    /\ is_vs1 => (require_align(vs1, F2U(s.lmul)) /\ widen_noover(s, vd, vs1))

vext_check_sds(s, vd, vs1, vs2, vm, is_vs1) ==
    /\ vext_narrow_check_common(s, vd, vs2, vm)
    /\ (vd # vs2) => require_noover(vd, F2I(s.lmul), vs2, F2I(s.lmul + 1))
    /\ is_vs1 => require_align(vs1, F2U(s.lmul))

vext_check_reduction(s, vs2, is_wide) ==
    /\ require_align(vs2, F2U(s.lmul))
    /\ is_wide => s.sew < 3

vext_check_slide(s, vd, vs2, vm, is_over) ==
    /\ require_align(vs2, F2U(s.lmul))
    /\ require_align(vd, F2U(s.lmul))
    /\ require_vm(vm, vd)
    /\ is_over => vd # vs2

\* require_rvv(s) && vext_check_isa_ill(s), the head of most checks
rvv_legal(s) == require_rvv(s) /\ vext_check_isa_ill(s)

amo_check(s, a) ==
    rvv_legal(s) /\ vext_check_amo(s, a.rd, a.rs2, a.wd, a.vm, a.eew)
\* fns[seq][s->sew - 2] of amo_op is never NULL on the 64-bit target
amo_op(s, a) == TRUE

opivv_check(s, a) ==
    rvv_legal(s) /\ vext_check_sss(s, a.rd, a.rs1, a.rs2, a.vm, TRUE)
opivx_check(s, a) ==
    rvv_legal(s) /\ vext_check_sss(s, a.rd, a.rs1, a.rs2, a.vm, FALSE)
opivv_widen_check(s, a) ==
    rvv_legal(s) /\ vext_check_dss(s, a.rd, a.rs1, a.rs2, a.vm, TRUE)
opivx_widen_check(s, a) ==
    rvv_legal(s) /\ vext_check_dss(s, a.rd, a.rs1, a.rs2, a.vm, FALSE)
opiwv_widen_check(s, a) ==
    rvv_legal(s) /\ vext_check_dds(s, a.rd, a.rs1, a.rs2, a.vm, TRUE)
opiwx_widen_check(s, a) ==
    rvv_legal(s) /\ vext_check_dds(s, a.rd, a.rs1, a.rs2, a.vm, FALSE)
opivv_vadc_check(s, a) ==
    /\ rvv_legal(s) /\ a.rd # 0
    /\ vext_check_sss(s, a.rd, a.rs1, a.rs2, a.vm, TRUE)
opivx_vadc_check(s, a) ==
    /\ rvv_legal(s) /\ a.rd # 0
    /\ vext_check_sss(s, a.rd, a.rs1, a.rs2, a.vm, FALSE)
opivv_vmadc_check(s, a) ==
    rvv_legal(s) /\ vext_check_mss(s, a.rd, a.rs1, a.rs2, TRUE)
opivx_vmadc_check(s, a) ==
    rvv_legal(s) /\ vext_check_mss(s, a.rd, a.rs1, a.rs2, FALSE)
opiwv_narrow_check(s, a) ==
    rvv_legal(s) /\ vext_check_sds(s, a.rd, a.rs1, a.rs2, a.vm, TRUE)
opiwx_narrow_check(s, a) ==
    rvv_legal(s) /\ vext_check_sds(s, a.rd, a.rs1, a.rs2, a.vm, FALSE)
opivv_cmp_check(s, a) ==
    rvv_legal(s) /\ vext_check_mss(s, a.rd, a.rs1, a.rs2, TRUE)
opivx_cmp_check(s, a) ==
    rvv_legal(s) /\ vext_check_mss(s, a.rd, a.rs1, a.rs2, FALSE)

opfvv_check(s, a) ==
    /\ rvv_legal(s)
    /\ vext_check_sss(s, a.rd, a.rs1, a.rs2, a.vm, TRUE)
    /\ s.sew # 0
opfvf_check(s, a) ==
    /\ require_rvv(s) /\ has_ext_RVF /\ vext_check_isa_ill(s)
    /\ vext_check_sss(s, a.rd, a.rs1, a.rs2, a.vm, FALSE)
    /\ s.sew # 0
opfvv_widen_check(s, a) ==
    /\ rvv_legal(s)
    /\ vext_check_dss(s, a.rd, a.rs1, a.rs2, a.vm, TRUE)
    /\ s.sew # 0
opfvf_widen_check(s, a) ==
    /\ rvv_legal(s)
    /\ vext_check_dss(s, a.rd, a.rs1, a.rs2, a.vm, FALSE)
    /\ s.sew # 0
opfwv_widen_check(s, a) ==
    /\ rvv_legal(s)
    /\ vext_check_dds(s, a.rd, a.rs1, a.rs2, a.vm, TRUE)
    /\ s.sew # 0
opfwf_widen_check(s, a) ==
    /\ rvv_legal(s)
    /\ vext_check_dds(s, a.rd, a.rs1, a.rs2, a.vm, FALSE)
    /\ s.sew # 0
opfv_check(s, a) ==
    /\ rvv_legal(s)
    /\ vext_check_sss(s, a.rd, 0, a.rs2, a.vm, FALSE)
    /\ s.sew # 0
opfvv_cmp_check(s, a) ==
    /\ rvv_legal(s)
    /\ vext_check_mss(s, a.rd, a.rs1, a.rs2, TRUE)
    /\ s.sew # 0
opfvf_cmp_check(s, a) ==
    /\ rvv_legal(s)
    /\ vext_check_mss(s, a.rd, a.rs1, a.rs2, FALSE)
    /\ s.sew # 0
opfv_widen_check(s, a) ==
    /\ rvv_legal(s)
    /\ vext_check_dss(s, a.rd, 0, a.rs2, a.vm, FALSE)
    /\ s.sew # 0
opfv_narrow_check(s, a) ==
    /\ rvv_legal(s)
    /\ vext_check_sds(s, a.rd, 0, a.rs2, a.vm, FALSE)
    /\ s.sew # 0

reduction_check(s, a) ==
    rvv_legal(s) /\ vext_check_reduction(s, a.rs2, FALSE)
reduction_widen_check(s, a) ==
    rvv_legal(s) /\ vext_check_reduction(s, a.rs2, TRUE)
slideup_check(s, a) ==
    rvv_legal(s) /\ vext_check_slide(s, a.rd, a.rs2, a.vm, TRUE)
slidedown_check(s, a) ==
    rvv_legal(s) /\ vext_check_slide(s, a.rd, a.rs2, a.vm, FALSE)

vrgather_vv_check(s, a) ==
    /\ rvv_legal(s)
    /\ require_align(a.rd, F2U(s.lmul))
    /\ require_align(a.rs1, F2U(s.lmul))
    /\ require_align(a.rs2, F2U(s.lmul))
    /\ a.rd # a.rs2 /\ a.rd # a.rs1
    /\ require_vm(a.vm, a.rd)
vrgatherei16_vv_check(s, a) ==
    LET emul == emul_of(s, 16)
    IN /\ rvv_legal(s)
       /\ emul >= -3 /\ emul <= 3
       /\ require_align(a.rd, F2U(s.lmul))
       /\ require_align(a.rs1, F2U(emul))
       /\ require_align(a.rs2, F2U(s.lmul))
       /\ a.rd # a.rs2 /\ a.rd # a.rs1
       /\ require_vm(a.vm, a.rd)
vrgather_vx_check(s, a) ==
    /\ rvv_legal(s)
    /\ require_align(a.rd, F2U(s.lmul))
    /\ require_align(a.rs2, F2U(s.lmul))
    /\ a.rd # a.rs2
    /\ require_vm(a.vm, a.rd)
vcompress_vm_check(s, a) ==
    /\ rvv_legal(s)
    /\ require_align(a.rd, F2U(s.lmul))
    /\ require_align(a.rs2, F2U(s.lmul))
    /\ a.rd # a.rs2
    /\ require_noover(a.rd, F2I(s.lmul), a.rs1, 1)

\* from = (1 << (s->sew + 3)) / div; s->flmul / div has exponent
\* lmul - log2(div)
int_ext_check(s, a, div) ==
    LET from == Pow2(s.sew + 3) \div div
        e    == s.lmul - Log2(div)
    IN /\ require_rvv(s)
       /\ from >= 8 /\ from <= 64
       /\ a.rd # a.rs2
       /\ require_align(a.rd, F2U(s.lmul))
       /\ require_align(a.rs2, F2U(e))
       /\ require_vm(a.vm, a.rd)
       /\ IF e < 0
          THEN require_noover(a.rd, F2I(s.lmul), a.rs2, F2I(e))
          ELSE require_noover_widen(a.rd, F2I(s.lmul), a.rs2, F2I(e))
\* fns[seq][s->sew] != NULL, the rows of vzext/vsext .vf2, .vf4, .vf8
int_ext_op(s, div) == s.sew >= Log2(div)

\* the checks written inline in the trans_ functions
vmv_v_v_check(s, a) ==
    rvv_legal(s) /\ vext_check_sss(s, a.rd, a.rs1, 0, 1, TRUE)
vmv_v_x_check(s, a) ==
    rvv_legal(s) /\ vext_check_sss(s, a.rd, a.rs1, 0, 1, FALSE)
vfmv_v_f_check(s, a) ==
    /\ require_rvv(s) /\ has_ext_RVF /\ vext_check_isa_ill(s)
    /\ require_align(a.rd, F2U(s.lmul))
    /\ s.sew # 0
mm_check(s, a) == vext_check_isa_ill(s)
vpopc_m_check(s, a) == rvv_legal(s)
vfirst_m_check(s, a) == rvv_legal(s)
m_check(s, a) == rvv_legal(s) /\ require_vm(a.vm, a.rd) /\ a.rd # a.rs2
viota_m_check(s, a) ==
    /\ rvv_legal(s)
    /\ require_noover(a.rd, F2I(s.lmul), a.rs2, 1)
    /\ require_vm(a.vm, a.rd)
    /\ require_align(a.rd, F2U(s.lmul))
vid_v_check(s, a) ==
    /\ rvv_legal(s)
    /\ require_align(a.rd, F2U(s.lmul))
    /\ require_vm(a.vm, a.rd)
\* trans_vext_x_v tests nothing and returns true
vext_x_v_check(s, a) == TRUE
vmv_x_s_check(s, a) == rvv_legal(s)
vmv_s_x_check(s, a) == rvv_legal(s)
vfmv_f_s_check(s, a) ==
    rvv_legal(s) /\ has_ext_RVF /\ mstatus_fs_on /\ s.sew # 0
vfmv_s_f_check(s, a) == rvv_legal(s) /\ has_ext_RVF /\ s.sew # 0
\* GEN_VMV_WHOLE_TRANS and GEN_LDST_WHOLE_TRANS: len registers
vmv_whole_check(s, a, len) ==
    require_rvv(s) /\ a.rd % len = 0 /\ a.rs2 % len = 0
ldst_whole_check(s, a, nf) == require_rvv(s) /\ require_align(a.rd, nf)

(* ------------------------------------------------------------------ *)
(* Translation of one instruction: the decoded operands and the        *)
(* translator's verdict                                                *)
(* ------------------------------------------------------------------ *)
\* the decoded argument set; fields an encoding lacks are 0
Args(rd, rs1, rs2, vm, eew, nf, wd) ==
    [rd |-> rd, rs1 |-> rs1, rs2 |-> rs2, vm |-> vm, eew |-> eew, nf |-> nf,
     wd |-> wd]

\* trans_<insn> of the instructions decoded as arg_rmrr
trans_rmrr(insn, s, a) ==
    CASE insn = "vadd_vv"         -> opivv_check(s, a)
      [] insn = "vadd_vx"         -> opivx_check(s, a)
      [] insn = "vwadd_vv"        -> opivv_widen_check(s, a)
      [] insn = "vwadd_vx"        -> opivx_widen_check(s, a)
      [] insn = "vwadd_wv"        -> opiwv_widen_check(s, a)
      [] insn = "vwadd_wx"        -> opiwx_widen_check(s, a)
      [] insn = "vadc_vvm"        -> opivv_vadc_check(s, a)
      [] insn = "vadc_vxm"        -> opivx_vadc_check(s, a)
      [] insn = "vmadc_vvm"       -> opivv_vmadc_check(s, a)
      [] insn = "vmadc_vxm"       -> opivx_vmadc_check(s, a)
      [] insn = "vnsrl_wv"        -> opiwv_narrow_check(s, a)
      [] insn = "vnsrl_wx"        -> opiwx_narrow_check(s, a)
      [] insn = "vmseq_vv"        -> opivv_cmp_check(s, a)
      [] insn = "vmseq_vx"        -> opivx_cmp_check(s, a)
      [] insn = "vfadd_vv"        -> opfvv_check(s, a)
      [] insn = "vfadd_vf"        -> opfvf_check(s, a)
      [] insn = "vfwadd_vv"       -> opfvv_widen_check(s, a)
      [] insn = "vfwadd_vf"       -> opfvf_widen_check(s, a)
      [] insn = "vfwadd_wv"       -> opfwv_widen_check(s, a)
      [] insn = "vfwadd_wf"       -> opfwf_widen_check(s, a)
      [] insn = "vmfeq_vv"        -> opfvv_cmp_check(s, a)
      [] insn = "vmfeq_vf"        -> opfvf_cmp_check(s, a)
      [] insn = "vredsum_vs"      -> reduction_check(s, a)
      [] insn = "vwredsum_vs"     -> reduction_widen_check(s, a)
      [] insn = "vfwredsum_vs"    -> reduction_check(s, a)
      [] insn = "vslideup_vx"     -> slideup_check(s, a)
      [] insn = "vslidedown_vx"   -> slidedown_check(s, a)
      [] insn = "vrgather_vv"     -> vrgather_vv_check(s, a)
      [] insn = "vrgatherei16_vv" -> vrgatherei16_vv_check(s, a)
      [] insn = "vrgather_vx"     -> vrgather_vx_check(s, a)

RmrrInsns ==
    {"vadd_vv", "vadd_vx", "vwadd_vv", "vwadd_vx", "vwadd_wv", "vwadd_wx",
     "vadc_vvm", "vadc_vxm", "vmadc_vvm", "vmadc_vxm", "vnsrl_wv",
     "vnsrl_wx", "vmseq_vv", "vmseq_vx", "vfadd_vv", "vfadd_vf",
     "vfwadd_vv", "vfwadd_vf", "vfwadd_wv", "vfwadd_wf", "vmfeq_vv",
     "vmfeq_vf", "vredsum_vs", "vwredsum_vs", "vfwredsum_vs",
     "vslideup_vx", "vslidedown_vx", "vrgather_vv", "vrgatherei16_vv",
     "vrgather_vx"}

\* trans_<insn> of the instructions decoded as arg_rmr
trans_rmr(insn, s, a) ==
    CASE insn = "vfsqrt_v"     -> opfv_check(s, a)
      [] insn = "vfwcvt_f_f_v" -> opfv_widen_check(s, a)
      [] insn = "vfncvt_f_f_v" -> opfv_narrow_check(s, a)
      [] insn = "vpopc_m"      -> vpopc_m_check(s, a)
      [] insn = "vfirst_m"     -> vfirst_m_check(s, a)
      [] insn = "vmsbf_m"      -> m_check(s, a)
      [] insn = "viota_m"      -> viota_m_check(s, a)
      [] insn = "vid_v"        -> vid_v_check(s, a)
      [] insn = "vzext_vf2"    -> int_ext_check(s, a, 2) /\ int_ext_op(s, 2)
      [] insn = "vzext_vf4"    -> int_ext_check(s, a, 4) /\ int_ext_op(s, 4)
      [] insn = "vzext_vf8"    -> int_ext_check(s, a, 8) /\ int_ext_op(s, 8)

RmrInsns ==
    {"vfsqrt_v", "vfwcvt_f_f_v", "vfncvt_f_f_v", "vpopc_m", "vfirst_m",
     "vmsbf_m", "viota_m", "vid_v", "vzext_vf2", "vzext_vf4", "vzext_vf8"}

\* trans_<insn> of the instructions decoded as arg_r
trans_r(insn, s, a) ==
    CASE insn = "vmand_mm"     -> mm_check(s, a)
      [] insn = "vcompress_vm" -> vcompress_vm_check(s, a)
      [] insn = "vext_x_v"     -> vext_x_v_check(s, a)

RInsns == {"vmand_mm", "vcompress_vm", "vext_x_v"}

\* trans_<insn> of the moves, decoded with one source register
trans_mv(insn, s, a) ==
    CASE insn = "vmv_v_v"  -> vmv_v_v_check(s, a)
      [] insn = "vmv_v_x"  -> vmv_v_x_check(s, a)
      [] insn = "vfmv_v_f" -> vfmv_v_f_check(s, a)
      [] insn = "vmv_x_s"  -> vmv_x_s_check(s, a)
      [] insn = "vmv_s_x"  -> vmv_s_x_check(s, a)
      [] insn = "vfmv_f_s" -> vfmv_f_s_check(s, a)
      [] insn = "vfmv_s_f" -> vfmv_s_f_check(s, a)

MvInsns ==
    {"vmv_v_v", "vmv_v_x", "vfmv_v_f", "vmv_x_s", "vmv_s_x", "vfmv_f_s",
     "vfmv_s_f"}

\* GEN_VEXT_TRANS of the loads, stores and AMOs: CHECK(s, a, EEW)
trans_ldst(insn, s, a) ==
    CASE insn = "vle_v"    -> ld_us_check(s, a.rd, a.nf, a.vm, a.eew)
      [] insn = "vleff_v"  -> ld_us_check(s, a.rd, a.nf, a.vm, a.eew)
      [] insn = "vse_v"    -> st_us_check(s, a.rd, a.nf, a.eew)
      [] insn = "vlse_v"   -> ld_stride_check(s, a.rd, a.nf, a.vm, a.eew)
      [] insn = "vsse_v"   -> st_stride_check(s, a.rd, a.nf, a.eew)
      [] insn = "vlxei_v"  ->
            ld_index_check(s, a.rd, a.rs2, a.nf, a.vm, a.eew)
      [] insn = "vsxei_v"  -> st_index_check(s, a.rd, a.rs2, a.nf, a.eew)
      [] insn = "vamoadd_v" -> amo_check(s, a) /\ amo_op(s, a)

UsInsns == {"vle_v", "vleff_v", "vse_v", "vlse_v", "vsse_v"}
IndexInsns == {"vlxei_v", "vsxei_v"}

\* vl<nf>r.v, vs<nf>r.v and vmv<nr>r.v
trans_whole(insn, s, a) ==
    CASE insn = "vlr_v"  -> ldst_whole_check(s, a, a.nf)
      [] insn = "vsr_v"  -> ldst_whole_check(s, a, a.nf)
      [] insn = "vmvr_v" -> vmv_whole_check(s, a, a.nf)

WholeInsns == {"vlr_v", "vsr_v", "vmvr_v"}

\* the translator's verdict on one instruction: true (code generated) or
\* false (illegal instruction); translation leaves the hart state alone
\* (mark_vs_dirty only moves a nonzero mstatus_vs to dirty)
Translate(insn, a, ok) ==
    /\ pc = "chk"
    /\ last' = [op |-> "translate", insn |-> insn, a |-> a, accepted |-> ok]
    /\ UNCHANGED <<vtype, vl, vstart, mstatus_vs, vreg, mem, mapped,
                   user_only, pc, vxsat, vxrm>>

translate_rmrr(insn, rd, rs1, rs2, vm) ==
    LET a == Args(rd, rs1, rs2, vm, 0, 0, 0)
    IN Translate(insn, a, trans_rmrr(insn, DisasContext, a))

translate_rmr(insn, rd, rs2, vm) ==
    LET a == Args(rd, 0, rs2, vm, 0, 0, 0)
    IN Translate(insn, a, trans_rmr(insn, DisasContext, a))

translate_r(insn, rd, rs1, rs2) ==
    LET a == Args(rd, rs1, rs2, 1, 0, 0, 0)
    IN Translate(insn, a, trans_r(insn, DisasContext, a))

translate_mv(insn, rd, rs) ==
    LET a == Args(rd, rs, rs, 1, 0, 0, 0)
    IN Translate(insn, a, trans_mv(insn, DisasContext, a))

translate_ldst(insn, rd, nf, vm, eew) ==
    LET a == Args(rd, 0, 0, vm, eew, nf, 0)
    IN Translate(insn, a, trans_ldst(insn, DisasContext, a))

translate_index(insn, rd, rs2, nf, vm, eew) ==
    LET a == Args(rd, 0, rs2, vm, eew, nf, 0)
    IN Translate(insn, a, trans_ldst(insn, DisasContext, a))

translate_amo(rd, rs2, wd, vm, eew) ==
    LET a == Args(rd, 0, rs2, vm, eew, 0, wd)
    IN Translate("vamoadd_v", a, trans_ldst("vamoadd_v", DisasContext, a))

translate_whole(insn, rd, rs2, len) ==
    LET a == Args(rd, 0, rs2, 1, 0, len, 0)
    IN Translate(insn, a, trans_whole(insn, DisasContext, a))

(* ------------------------------------------------------------------ *)
(* Specification of translation: configurations, legal and illegal,    *)
(* each followed by a block of vector instructions                     *)
(* ------------------------------------------------------------------ *)
\* vsetvli immediates: LMUL 1, 2, 4, 8, 1/8, 1/4, 1/2 with SEW 8, 16, 32,
\* 64, and one with the reserved bit
ChkZimms ==
    {TypeBits(lm, sw, 0, 0, FALSE) : lm \in {0, 1, 2, 3, 5, 6, 7},
                                     sw \in {0, 1, 2, 3}}
    \cup {TypeBits(0, 0, 0, 1, FALSE)}
\* x[rs2] of vsetvl: legal, vill bit set, ediv set, fraction too small
ChkTypeBits ==
    {TypeBits(1, 2, 0, 0, FALSE), TypeBits(0, 0, 0, 0, TRUE),
     TypeBits(0, 0, 1, 0, FALSE), TypeBits(5, 3, 0, 0, FALSE)}

\* the first instruction after a configuration takes its operands from
\* the full sets, the later ones of the block from one fixed choice; a
\* block is left by one fixed configuration, which opens every other
FirstOfBlock == last.op # "translate"
ChkRd   == IF FirstOfBlock THEN {0, 1, 2, 4, 8, 16} ELSE {8}
ChkRs1  == IF FirstOfBlock THEN {0, 1, 4} ELSE {4}
ChkRs2  == IF FirstOfBlock THEN {0, 2, 3, 4, 8} ELSE {4}
ChkVm   == IF FirstOfBlock THEN {0, 1} ELSE {1}
ChkEew  == IF FirstOfBlock THEN {8, 16, 32, 64} ELSE {16}
ChkNf   == IF FirstOfBlock THEN {1, 2} ELSE {1}
ChkLen  == IF FirstOfBlock THEN {1, 2, 4, 8} ELSE {2}
Pick(All, later) == IF FirstOfBlock THEN All ELSE {later}

InitChk ==
    /\ vtype = ZeroVtype
    /\ vl = 0
    /\ vstart = 0
    /\ mstatus_vs \in {0, 1}
    /\ vreg = RegFile(5, 0, <<>>)
    /\ mem = [a \in 0 .. (MemSize - 1) |-> 0]
    /\ mapped = {}
    /\ user_only = TRUE
    /\ pc = "chk"
    /\ last = [op |-> "none"]
    /\ vxsat = 0
    /\ vxrm = 0

NextChk ==
    \/ \E s2 \in Pick(ChkTypeBits, TypeBits(1, 2, 0, 0, FALSE)) :
          trans_vsetvl(1, 0, 0, s2)
    \/ \E zimm \in Pick(ChkZimms, TypeBits(0, 0, 0, 0, FALSE)) :
          trans_vsetvli(1, 0, 0, zimm)
    \/ \E insn \in Pick(RmrrInsns, "vadd_vv"), rd \in ChkRd, rs1 \in ChkRs1,
          rs2 \in ChkRs2, vm \in ChkVm :
          translate_rmrr(insn, rd, rs1, rs2, vm)
    \/ \E insn \in Pick(RmrInsns, "vzext_vf2"), rd \in ChkRd, rs2 \in ChkRs2,
          vm \in ChkVm :
          translate_rmr(insn, rd, rs2, vm)
    \/ \E insn \in Pick(RInsns, "vext_x_v"), rd \in ChkRd, rs1 \in ChkRs1,
          rs2 \in ChkRs2 :
          translate_r(insn, rd, rs1, rs2)
    \/ \E insn \in Pick(MvInsns, "vmv_v_v"), rd \in ChkRd, rs \in ChkRs2 :
          translate_mv(insn, rd, rs)
    \/ \E insn \in Pick(UsInsns, "vle_v"), rd \in ChkRd, nf \in ChkNf,
          vm \in ChkVm, eew \in ChkEew :
          translate_ldst(insn, rd, nf, vm, eew)
    \/ \E insn \in Pick(IndexInsns, "vlxei_v"), rd \in ChkRd,
          rs2 \in ChkRs2, nf \in ChkNf, vm \in ChkVm, eew \in ChkEew :
          translate_index(insn, rd, rs2, nf, vm, eew)
    \/ \E rd \in ChkRd, rs2 \in ChkRs2, wd \in ChkVm, vm \in ChkVm,
          eew \in ChkEew :
          translate_amo(rd, rs2, wd, vm, eew)
    \/ \E insn \in Pick(WholeInsns, "vmvr_v"), rd \in ChkRd, rs2 \in ChkRs2,
          len \in ChkLen :
          translate_whole(insn, rd, rs2, len)

SpecChk == InitChk /\ [][NextChk]_vars

(* ------------------------------------------------------------------ *)
(* Vector AMO: translator and the non-atomic helper                    *)
(* ------------------------------------------------------------------ *)
\* vext_<NAME>_noatomic_op with DO_SWAP: a = mem[addr], b = vs3[idx];
\* mem[addr] = b; if (wd) vs3[idx] = a
noatomic_op(st, addr, idx, vd, esz, wd) ==
    LET s1 == ste(st, addr, idx, vd, esz)
    IN IF wd = 1 THEN [s1 EXCEPT !.vreg = lde(st, addr, idx, vd, esz).vreg]
       ELSE s1

\* the second loop of vext_amo_noatomic
RECURSIVE amo_loop(_, _, _)
amo_loop(P, st, i) ==
    IF i >= st.vl THEN st
    ELSE IF ~elem_active(P, st.vreg, i) THEN amo_loop(P, st, i + 1)
    ELSE LET addr == get_index_addr(P.base, i, st.vreg, P.vs2, P.isz)
         IN IF ~elem_access_ok(addr, P.msz)
            THEN [st EXCEPT !.fault = TRUE]
            ELSE amo_loop(P, noatomic_op(st, addr, i, P.vd, P.esz, P.wd),
                          i + 1)

\* vext_amo_noatomic(vs3, v0, base, vs2, env, desc, get_index_addr, ...):
\* the probes for load and for store fail on the same pages
vext_amo_noatomic(P, st) ==
    IF ~probe_loop_ok(P, st) THEN [st EXCEPT !.fault = TRUE]
    ELSE amo_loop(P, st, 0)

\* a variant of the translator that emits the helper call under
\* CF_PARALLEL as well
trans_vamoswapei_v_noexit(rd, base, rs2, wd, vm, seq, parallel) ==
    LET s   == DisasContext
        a   == Args(rd, 0, rs2, vm, 8 * Pow2(seq), 0, wd)
        esz == Pow2(s.sew)
        ok  == amo_check(s, a) /\ amo_op(s, a)
        P   == [mode |-> "index", is_store |-> TRUE, vd |-> rd, vs2 |-> rs2,
                nf |-> 1, vm |-> vm, esz |-> esz, msz |-> esz,
                isz |-> Pow2(seq), base |-> base, stride |-> 0, vlmax |-> 0,
                wd |-> wd, cf_parallel |-> parallel,
                exit_atomic |-> FALSE]
    IN /\ pc = "ready" /\ FitsPage(1, esz)
       /\ Execute("vamoswap", ok, P,
                  IF ok /\ vl # 0 THEN vext_amo_noatomic(P, Env) ELSE Env)

\* trans_vamoswapei<eew>_v: GEN_VEXT_TRANS(..., amo_op, amo_check). Under
\* CF_PARALLEL amo_op emits gen_helper_exit_atomic and ends the block
\* (exit_atomic) instead of the helper call; otherwise amo_trans branches
\* over the helper call when vl = 0
trans_vamoswapei_v(rd, base, rs2, wd, vm, seq, parallel) ==
    LET s   == DisasContext
        a   == Args(rd, 0, rs2, vm, 8 * Pow2(seq), 0, wd)
        esz == Pow2(s.sew)
        ok  == amo_check(s, a) /\ amo_op(s, a)
        P   == [mode |-> "index", is_store |-> TRUE, vd |-> rd, vs2 |-> rs2,
                nf |-> 1, vm |-> vm, esz |-> esz, msz |-> esz,
                isz |-> Pow2(seq), base |-> base, stride |-> 0, vlmax |-> 0,
                wd |-> wd, cf_parallel |-> parallel,
                exit_atomic |-> (ok /\ parallel)]
    IN /\ pc = "ready" /\ FitsPage(1, esz)
       /\ Execute("vamoswap", ok, P,
                  IF ok /\ ~parallel /\ vl # 0
                  THEN vext_amo_noatomic(P, Env) ELSE Env)

\* the states of InitMem with SEW = 32 and LMUL = 1
InitAmo ==
    /\ vtype = TypeBits(0, 2, 0, 0, FALSE)
    /\ vl \in 0 .. MaxMemVL
    /\ vstart = 0
    /\ mstatus_vs = 1
    /\ \E m \in MaskBytes : vreg = RegFile(m, 170, IndexBytes)
    /\ mem = [a \in 0 .. (MemSize - 1) |-> (7 * a + 1) % 256]
    /\ mapped \in SUBSET (0 .. (NumPages - 1))
    /\ user_only \in BOOLEAN
    /\ pc = "ready"
    /\ last = [op |-> "none"]
    /\ vxsat = 0
    /\ vxrm = 0

NextAmo ==
    \E base \in MemBases, wd \in {0, 1}, vm \in {0, 1}, seq \in {0, 1},
       parallel \in BOOLEAN :
       trans_vamoswapei_v(8, base, 16, wd, vm, seq, parallel)

SpecAmo == InitAmo /\ [][NextAmo]_vars

(* ------------------------------------------------------------------ *)
(* Integer and fixed-point element helpers (vector_helper.c)           *)
(* ------------------------------------------------------------------ *)
\* (intN_t)u and (uintN_t)x for N = w
sext(w, u) == IF 2 * u >= Pow2(w) THEN u - Pow2(w) ELSE u
zext(w, x) == x % Pow2(w)
\* extract64(v, start, length) of the two's complement of v
extract64(v, start, length) == (v \div Pow2(start)) % Pow2(length)

\* a variant whose round-to-nearest-even ignores the parity of the quotient
get_round_noeven(rm, v, shift) ==
    LET d == extract64(v, shift, 1)
    IN IF shift = 0 \/ shift > 64 THEN 0
       ELSE LET d1 == extract64(v, shift - 1, 1)
                D1 == extract64(v, 0, shift)
            IN IF rm = 0 \/ rm = 1 THEN d1
               ELSE IF rm = 3
               THEN (IF d = 0 /\ D1 # 0 THEN 1 ELSE 0)
               ELSE 0

\* get_round(vxrm, v, shift): the rounding increment
get_round(rm, v, shift) ==
    LET d == extract64(v, shift, 1)
    IN IF shift = 0 \/ shift > 64 THEN 0
       ELSE LET d1 == extract64(v, shift - 1, 1)
                D1 == extract64(v, 0, shift)
            IN IF rm = 0 THEN d1
               ELSE IF rm = 1
               THEN (IF shift > 1
                     THEN (IF d1 = 1 /\ (extract64(v, 0, shift - 1) # 0
                                          \/ d = 1)
                           THEN 1 ELSE 0)
                     ELSE (IF d1 = 1 /\ d = 1 THEN 1 ELSE 0))
               ELSE IF rm = 3
               THEN (IF d = 0 /\ D1 # 0 THEN 1 ELSE 0)
               ELSE 0

\* saddu8 .. saddu16: a and b are the operands' bit patterns, res the
\* result's bit pattern, sat whether env->vxsat is written
saddu(w, a, b) ==
    LET res == zext(w, a + b)
    IN IF res < a THEN [res |-> Pow2(w) - 1, sat |-> TRUE]
       ELSE [res |-> res, sat |-> FALSE]

\* sadd8 .. sadd16: (res ^ a) & (res ^ b) & INTn_MIN
sadd(w, a, b) ==
    LET res == zext(w, a + b)
        neg(x) == 2 * x >= Pow2(w)
    IN IF neg(res) # neg(a) /\ neg(res) # neg(b)
       THEN [res |-> IF sext(w, a) > 0 THEN Pow2(w - 1) - 1 ELSE Pow2(w - 1),
             sat |-> TRUE]
       ELSE [res |-> res, sat |-> FALSE]

\* ssubu8 .. ssubu16
ssubu(w, a, b) ==
    LET res == zext(w, a - b)
    IN IF res > a THEN [res |-> 0, sat |-> TRUE]
       ELSE [res |-> res, sat |-> FALSE]

\* ssub8 .. ssub16: (res ^ a) & (a ^ b) & INTn_MIN
ssub(w, a, b) ==
    LET res == zext(w, a - b)
        neg(x) == 2 * x >= Pow2(w)
    IN IF neg(res) # neg(a) /\ neg(a) # neg(b)
       THEN [res |-> IF sext(w, a) > 0 THEN Pow2(w - 1) - 1 ELSE Pow2(w - 1),
             sat |-> TRUE]
       ELSE [res |-> res, sat |-> FALSE]

\* vsmul8 .. vsmul16: the product is held in twice the width
vsmul(w, rm, a, b) ==
    LET prod == sext(w, a) * sext(w, b)
        res  == (prod \div Pow2(w - 1)) + get_round(rm, prod, w - 1)
    IN IF res > Pow2(w - 1) - 1
       THEN [res |-> Pow2(w - 1) - 1, sat |-> TRUE]
       ELSE IF res < 0 - Pow2(w - 1)
       THEN [res |-> Pow2(w - 1), sat |-> TRUE]
       ELSE [res |-> zext(w, res), sat |-> FALSE]

\* vssrl8 .. vssrl16: shift = b & (w - 1)
vssrl(w, rm, a, b) ==
    LET shift == b % w
    IN [res |-> zext(w, (a \div Pow2(shift)) + get_round(rm, a, shift)),
        sat |-> FALSE]

\* RVVCALL(OPIVV2_RM, <insn>_<b|h>, ...): the element function of insn
opivv2_rm_fn(insn, w, rm, a, b) ==
    CASE insn = "vsaddu_vv" -> saddu(w, a, b)
      [] insn = "vsadd_vv"  -> sadd(w, a, b)
      [] insn = "vssubu_vv" -> ssubu(w, a, b)
      [] insn = "vssub_vv"  -> ssub(w, a, b)
      [] insn = "vsmul_vv"  -> vsmul(w, rm, a, b)
      [] insn = "vssrl_vv"  -> vssrl(w, rm, a, b)

\* *((ETYPE *)vd + i) = val, written as esz little-endian bytes from
\* byte idx = i * esz of the group at reg
RECURSIVE set_elem(_, _, _, _, _)
set_elem(rf, reg, idx, esz, val) ==
    IF esz = 0 THEN rf
    ELSE set_elem([rf EXCEPT ![reg * VLENB + idx] = val % 256],
                  reg, idx + 1, esz - 1, val \div 256)

\* vext_set_elem_mask(vd, index, value): deposit64 of one bit
vext_set_elem_mask(rf, vd, index, value) ==
    LET b == vd * VLENB + (index \div 8)
        k == Pow2(index % 8)
    IN [rf EXCEPT ![b] = @ - ((@ \div k) % 2) * k + value * k]

\* a variant whose element functions assign vxsat on every element
RECURSIVE vext_vv_rm_1_assign(_, _, _, _)
vext_vv_rm_1_assign(insn, P, st, i) ==
    IF i >= st.vl THEN st
    ELSE IF ~elem_active(P, st.vreg, i)
    THEN vext_vv_rm_1_assign(insn, P, st, i + 1)
    ELSE LET r == opivv2_rm_fn(insn, 8 * P.esz, st.vxrm,
                               reg_elem(st.vreg, P.vs2, i * P.esz, P.esz),
                               reg_elem(st.vreg, P.vs1, i * P.esz, P.esz))
         IN vext_vv_rm_1_assign(insn, P,
                [st EXCEPT !.vreg = set_elem(@, P.vd, i * P.esz, P.esz, r.res),
                           !.vxsat = IF r.sat THEN 1 ELSE 0],
                i + 1)

\* vext_vv_rm_2 / vext_vv_rm_1 with do_<insn>: s2 is the first operand
RECURSIVE vext_vv_rm_1(_, _, _, _)
vext_vv_rm_1(insn, P, st, i) ==
    IF i >= st.vl THEN st
    ELSE IF ~elem_active(P, st.vreg, i) THEN vext_vv_rm_1(insn, P, st, i + 1)
    ELSE LET r == opivv2_rm_fn(insn, 8 * P.esz, st.vxrm,
                               reg_elem(st.vreg, P.vs2, i * P.esz, P.esz),
                               reg_elem(st.vreg, P.vs1, i * P.esz, P.esz))
         IN vext_vv_rm_1(insn, P,
                [st EXCEPT !.vreg = set_elem(@, P.vd, i * P.esz, P.esz, r.res),
                           !.vxsat = IF r.sat THEN 1 ELSE @],
                i + 1)

\* a variant that does not skip the masked-off elements
RECURSIVE do_vext_vv_nomask(_, _, _)
do_vext_vv_nomask(P, st, i) ==
    IF i >= st.vl THEN st
    ELSE do_vext_vv_nomask(P,
            [st EXCEPT !.vreg =
                set_elem(@, P.vd, i * P.esz, P.esz,
                         zext(8 * P.esz,
                              reg_elem(@, P.vs2, i * P.esz, P.esz)
                              + reg_elem(@, P.vs1, i * P.esz, P.esz)))],
            i + 1)

\* do_vext_vv with do_vadd_vv_<b|h>: DO_ADD
RECURSIVE do_vext_vv(_, _, _)
do_vext_vv(P, st, i) ==
    IF i >= st.vl THEN st
    ELSE IF ~elem_active(P, st.vreg, i) THEN do_vext_vv(P, st, i + 1)
    ELSE do_vext_vv(P,
            [st EXCEPT !.vreg =
                set_elem(@, P.vd, i * P.esz, P.esz,
                         zext(8 * P.esz,
                              reg_elem(@, P.vs2, i * P.esz, P.esz)
                              + reg_elem(@, P.vs1, i * P.esz, P.esz)))],
            i + 1)

\* tcg_gen_gvec_add over MAXSZ(s) bytes of the groups
RECURSIVE gvec_add(_, _, _)
gvec_add(P, st, i) ==
    IF i * P.esz >= P.maxsz THEN st
    ELSE gvec_add(P,
            [st EXCEPT !.vreg =
                set_elem(@, P.vd, i * P.esz, P.esz,
                         zext(8 * P.esz,
                              reg_elem(@, P.vs2, i * P.esz, P.esz)
                              + reg_elem(@, P.vs1, i * P.esz, P.esz)))],
            i + 1)

\* the second loop of the mask-producing helpers: for (; i < vlmax; i++)
RECURSIVE clear_tail(_, _, _)
clear_tail(P, rf, i) ==
    IF i >= P.vlmax THEN rf
    ELSE clear_tail(P, vext_set_elem_mask(rf, P.vd, i, 0), i + 1)

\* GEN_VEXT_CMP_VV(vmseq_vv_<b|h>, ..., DO_MSEQ)
RECURSIVE vmseq_vv(_, _, _)
vmseq_vv(P, st, i) ==
    IF i >= st.vl THEN [st EXCEPT !.vreg = clear_tail(P, @, i)]
    ELSE IF ~elem_active(P, st.vreg, i) THEN vmseq_vv(P, st, i + 1)
    ELSE vmseq_vv(P,
            [st EXCEPT !.vreg =
                vext_set_elem_mask(@, P.vd, i,
                    IF reg_elem(@, P.vs2, i * P.esz, P.esz)
                       = reg_elem(@, P.vs1, i * P.esz, P.esz)
                    THEN 1 ELSE 0)],
            i + 1)

\* GEN_VEXT_VMADC_VVM(vmadc_vvm_<b|h>, ..., DO_MADC): the carry out of
\* s2 + s1 + carry, the carry in being the mask bit
RECURSIVE vmadc_vvm(_, _, _)
vmadc_vvm(P, st, i) ==
    IF i >= st.vl THEN [st EXCEPT !.vreg = clear_tail(P, @, i)]
    ELSE vmadc_vvm(P,
            [st EXCEPT !.vreg =
                vext_set_elem_mask(@, P.vd, i,
                    IF reg_elem(@, P.vs2, i * P.esz, P.esz)
                       + reg_elem(@, P.vs1, i * P.esz, P.esz)
                       + vext_elem_mask(@, i) >= Pow2(8 * P.esz)
                    THEN 1 ELSE 0)],
            i + 1)

(* ------------------------------------------------------------------ *)
(* Divide, reduction, mask-set and permutation helpers                 *)
(* ------------------------------------------------------------------ *)
\* N / M of C: the quotient truncated toward zero
c_div(n, m) ==
    IF (n < 0) = (m < 0) THEN (IF n < 0 THEN -n ELSE n) \div
                              (IF m < 0 THEN -m ELSE m)
    ELSE -((IF n < 0 THEN -n ELSE n) \div (IF m < 0 THEN -m ELSE m))
\* N % M of C: the remainder has the sign of the dividend
c_rem(n, m) == n - m * c_div(n, m)

\* DO_DIVU, DO_REMU on the unsigned element values
DO_DIVU(w, N, M) == IF M = 0 THEN Pow2(w) - 1 ELSE N \div M
DO_REMU(w, N, M) == IF M = 0 THEN N ELSE N % M
\* DO_DIV, DO_REM on int8_t / int16_t operands: N and M are promoted to
\* int, so -N does not wrap and N == -N holds for N = 0 only; the result
\* is converted back to the element type. DO_DIV_floor is a variant that
\* rounds the quotient toward minus infinity
DO_DIV_floor(w, N, M) ==
    LET n == sext(w, N)
        m == sext(w, M)
    IN zext(w, IF m = 0 THEN -1
               ELSE IF n = -n /\ m = -1 THEN n
               ELSE n \div m)
DO_DIV(w, N, M) ==
    LET n == sext(w, N)
        m == sext(w, M)
    IN zext(w, IF m = 0 THEN -1
               ELSE IF n = -n /\ m = -1 THEN n
               ELSE c_div(n, m))
DO_REM(w, N, M) ==
    LET n == sext(w, N)
        m == sext(w, M)
    IN zext(w, IF m = 0 THEN n
               ELSE IF n = -n /\ m = -1 THEN 0
               ELSE c_rem(n, m))

\* RVVCALL(OPIVV2, v<div|rem>[u]_vv_<b|h>, ...): OP(s2, s1)
opivv2_fn(insn, w, s2, s1) ==
    CASE insn = "vdivu_vv" -> DO_DIVU(w, s2, s1)
      [] insn = "vdiv_vv"  -> DO_DIV(w, s2, s1)
      [] insn = "vremu_vv" -> DO_REMU(w, s2, s1)
      [] insn = "vrem_vv"  -> DO_REM(w, s2, s1)

\* do_vext_vv with an OPIVV2 element function
RECURSIVE do_vext_vv_op(_, _, _, _)
do_vext_vv_op(insn, P, st, i) ==
    IF i >= st.vl THEN st
    ELSE IF ~elem_active(P, st.vreg, i) THEN do_vext_vv_op(insn, P, st, i + 1)
    ELSE do_vext_vv_op(insn, P,
            [st EXCEPT !.vreg =
                set_elem(@, P.vd, i * P.esz, P.esz,
                         opivv2_fn(insn, 8 * P.esz,
                                   reg_elem(@, P.vs2, i * P.esz, P.esz),
                                   reg_elem(@, P.vs1, i * P.esz, P.esz)))],
            i + 1)

\* the OP of GEN_VEXT_RED on the unsigned images of TD values: DO_ADD
\* converted back to TD, DO_MAX on uint<w>_t, DO_MAX on int<w>_t
red_op(insn, w, s1, s2) ==
    CASE insn = "vredsum_vs"  -> zext(w, s1 + s2)
      [] insn = "vredmaxu_vs" -> MAX(s1, s2)
      [] insn = "vredmax_vs"  ->
            IF sext(w, s1) >= sext(w, s2) THEN s1 ELSE s2

\* a variant that folds the masked-off elements as well
RECURSIVE GEN_VEXT_RED_nomask(_, _, _, _, _)
GEN_VEXT_RED_nomask(insn, P, st, i, s1) ==
    IF i >= st.vl
    THEN [st EXCEPT !.vreg = set_elem(@, P.vd, 0, P.esz, s1)]
    ELSE GEN_VEXT_RED_nomask(insn, P, st, i + 1,
            red_op(insn, 8 * P.esz, s1,
                   reg_elem(st.vreg, P.vs2, i * P.esz, P.esz)))

\* GEN_VEXT_RED(NAME, TD, TS2, HD, HS2, OP): s1 enters as vs1[0]
RECURSIVE GEN_VEXT_RED(_, _, _, _, _)
GEN_VEXT_RED(insn, P, st, i, s1) ==
    IF i >= st.vl
    THEN [st EXCEPT !.vreg = set_elem(@, P.vd, 0, P.esz, s1)]
    ELSE IF ~elem_active(P, st.vreg, i)
    THEN GEN_VEXT_RED(insn, P, st, i + 1, s1)
    ELSE GEN_VEXT_RED(insn, P, st, i + 1,
            red_op(insn, 8 * P.esz, s1,
                   reg_elem(st.vreg, P.vs2, i * P.esz, P.esz)))

\* the second loop of vmsetm: for (; i < vlmax; i++), vlmax = cfg.vlen
\* every mask bit of vd from i up to vlmax - 1 is cleared, byte by byte
vmsetm_tail(P, rf, i) ==
    [b \in VregBytes |->
        LET k == b - P.vd * VLENB
        IN IF k < 0 \/ 8 * k >= VLEN \/ 8 * k + 8 <= i THEN rf[b]
           ELSE IF 8 * k >= i THEN 0
           ELSE rf[b] % Pow2(i - 8 * k)]

\* a variant that keeps writing ones after the first set bit
RECURSIVE vmsetm_nofirst(_, _, _, _, _)
vmsetm_nofirst(type, P, st, i, first_mask_bit) ==
    IF i >= st.vl THEN [st EXCEPT !.vreg = vmsetm_tail(P, @, i)]
    ELSE IF ~elem_active(P, st.vreg, i)
    THEN vmsetm_nofirst(type, P, st, i + 1, first_mask_bit)
    ELSE IF vext_elem_mask(st.vreg, P.vs2 * VLEN + i) = 1
    THEN vmsetm_nofirst(type, P,
            [st EXCEPT !.vreg = vext_set_elem_mask(@, P.vd, i,
                IF type = "BEFORE_FIRST" THEN 0 ELSE 1)],
            i + 1, TRUE)
    ELSE vmsetm_nofirst(type, P,
            [st EXCEPT !.vreg = vext_set_elem_mask(@, P.vd, i,
                IF type = "ONLY_FIRST" THEN 0 ELSE 1)],
            i + 1, first_mask_bit)

\* vmsetm(vd, v0, vs2, env, desc, type)
RECURSIVE vmsetm(_, _, _, _, _)
vmsetm(type, P, st, i, first_mask_bit) ==
    IF i >= st.vl THEN [st EXCEPT !.vreg = vmsetm_tail(P, @, i)]
    ELSE IF ~elem_active(P, st.vreg, i)
    THEN vmsetm(type, P, st, i + 1, first_mask_bit)
    ELSE IF first_mask_bit
    THEN vmsetm(type, P,
            [st EXCEPT !.vreg = vext_set_elem_mask(@, P.vd, i, 0)],
            i + 1, TRUE)
    ELSE IF vext_elem_mask(st.vreg, P.vs2 * VLEN + i) = 1
    THEN vmsetm(type, P,
            [st EXCEPT !.vreg = vext_set_elem_mask(@, P.vd, i,
                IF type = "BEFORE_FIRST" THEN 0 ELSE 1)],
            i + 1, TRUE)
    ELSE vmsetm(type, P,
            [st EXCEPT !.vreg = vext_set_elem_mask(@, P.vd, i,
                IF type = "ONLY_FIRST" THEN 0 ELSE 1)],
            i + 1, FALSE)

\* GEN_VEXT_MASK_VV(NAME, OP) with DO_AND and DO_XOR: OP(b, a) on the
\* bits of vs2 and vs1, then the tail up to cfg.vlen cleared
RECURSIVE GEN_VEXT_MASK_VV(_, _, _, _)
GEN_VEXT_MASK_VV(insn, P, st, i) ==
    IF i >= st.vl THEN [st EXCEPT !.vreg = vmsetm_tail(P, @, i)]
    ELSE LET a == vext_elem_mask(st.vreg, P.vs1 * VLEN + i)
             b == vext_elem_mask(st.vreg, P.vs2 * VLEN + i)
         IN GEN_VEXT_MASK_VV(insn, P,
                [st EXCEPT !.vreg = vext_set_elem_mask(@, P.vd, i,
                    IF insn = "vmand_mm" THEN a * b ELSE (a + b) % 2)],
                i + 1)

\* GEN_VEXT_VSLIDEDOWN_VX(vslidedown_vx_<b|h>): vlmax is cfg.vlen and
\* offset is the scalar s1
RECURSIVE vslidedown_vx(_, _, _)
vslidedown_vx(P, st, i) ==
    IF i >= st.vl THEN st
    ELSE IF ~elem_active(P, st.vreg, i) THEN vslidedown_vx(P, st, i + 1)
    ELSE LET j == i + P.s1
         IN vslidedown_vx(P,
                [st EXCEPT !.vreg =
                    set_elem(@, P.vd, i * P.esz, P.esz,
                             IF j >= VLEN THEN 0
                             ELSE reg_elem(@, P.vs2, j * P.esz, P.esz))],
                i + 1)

\* GEN_VEXT_VRGATHER_VV(vrgather_vv_<b|h>): vlmax is cfg.vlen and index
\* is vs1[i]
RECURSIVE vrgather_vv(_, _, _)
vrgather_vv(P, st, i) ==
    IF i >= st.vl THEN st
    ELSE IF ~elem_active(P, st.vreg, i) THEN vrgather_vv(P, st, i + 1)
    ELSE LET index == reg_elem(st.vreg, P.vs1, i * P.esz, P.esz)
         IN vrgather_vv(P,
                [st EXCEPT !.vreg =
                    set_elem(@, P.vd, i * P.esz, P.esz,
                             IF index >= VLEN THEN 0
                             ELSE reg_elem(@, P.vs2, index * P.esz, P.esz))],
                i + 1)

\* GEN_VEXT_VRGATHER_VX(vrgather_vx_<b|h>): vlmax is cfg.vlen and index
\* is the scalar s1
RECURSIVE vrgather_vx(_, _, _)
vrgather_vx(P, st, i) ==
    IF i >= st.vl THEN st
    ELSE IF ~elem_active(P, st.vreg, i) THEN vrgather_vx(P, st, i + 1)
    ELSE LET index == P.s1
         IN vrgather_vx(P,
                [st EXCEPT !.vreg =
                    set_elem(@, P.vd, i * P.esz, P.esz,
                             IF index >= VLEN THEN 0
                             ELSE reg_elem(@, P.vs2, index * P.esz, P.esz))],
                i + 1)

\* a variant that writes every selected element at its own index
RECURSIVE vcompress_vm_nopack(_, _, _, _)
vcompress_vm_nopack(P, st, i, num) ==
    IF i >= st.vl THEN st
    ELSE IF vext_elem_mask(st.vreg, P.vs1 * VLEN + i) = 0
    THEN vcompress_vm_nopack(P, st, i + 1, num)
    ELSE vcompress_vm_nopack(P,
            [st EXCEPT !.vreg =
                set_elem(@, P.vd, i * P.esz, P.esz,
                         reg_elem(@, P.vs2, i * P.esz, P.esz))],
            i + 1, num + 1)

\* GEN_VEXT_VCOMPRESS_VM(vcompress_vm_<b|h>): the mask is vs1
RECURSIVE vcompress_vm(_, _, _, _)
vcompress_vm(P, st, i, num) ==
    IF i >= st.vl THEN st
    ELSE IF vext_elem_mask(st.vreg, P.vs1 * VLEN + i) = 0
    THEN vcompress_vm(P, st, i + 1, num)
    ELSE vcompress_vm(P,
            [st EXCEPT !.vreg =
                set_elem(@, P.vd, num * P.esz, P.esz,
                         reg_elem(@, P.vs2, i * P.esz, P.esz))],
            i + 1, num + 1)

(* ------------------------------------------------------------------ *)
(* Translator and execution of the OPIVV instructions                  *)
(* ------------------------------------------------------------------ *)
\* MAXSZ(s) = (s->vlen >> 3) * s->flmul, converted to uint32_t
MAXSZ(s) == IF s.lmul >= 0 THEN VLENB * Pow2(s.lmul)
            ELSE VLENB \div Pow2(0 - s.lmul)

\* the helper (or inline vector operation) the translator emits for insn
opivv_helper(insn, P, st) ==
    CASE insn = "vadd_vv" ->
            IF P.vm = 1 /\ P.vl_eq_vlmax THEN gvec_add(P, st, 0)
            ELSE do_vext_vv(P, st, 0)
      [] insn = "vmseq_vv" -> vmseq_vv(P, st, 0)
      [] insn = "vmadc_vvm" -> vmadc_vvm(P, st, 0)
      [] insn = "vrgather_vv" -> vrgather_vv(P, st, 0)
      [] insn \in {"vdivu_vv", "vdiv_vv", "vremu_vv", "vrem_vv"} ->
            do_vext_vv_op(insn, P, st, 0)
      [] insn \in {"vredsum_vs", "vredmaxu_vs", "vredmax_vs"} ->
            GEN_VEXT_RED(insn, P, st, 0,
                         reg_elem(st.vreg, P.vs1, 0, P.esz))
      [] OTHER -> vext_vv_rm_1(insn, P, st, 0)

\* the vl of the states in which a second instruction follows the first
ExeSeqVL == 3

\* GEN_OPIVV_TRANS(NAME, CHECK) and do_opivv_gvec: a failed check is an
\* illegal instruction; the helper is branched over when vl = 0
trans_opivv(insn, rd, rs1, rs2, vm, mz) ==
    LET s   == DisasContext
        a   == Args(rd, rs1, rs2, vm, 0, 0, 0)
        esz == Pow2(s.sew)
        ok  == CASE insn = "vmseq_vv"  -> opivv_cmp_check(s, a)
                 [] insn = "vmadc_vvm" -> opivv_vmadc_check(s, a)
                 [] insn = "vrgather_vv" -> vrgather_vv_check(s, a)
                 [] insn \in {"vredsum_vs", "vredmaxu_vs", "vredmax_vs"} ->
                        reduction_check(s, a)
                 [] OTHER              -> opivv_check(s, a)
        P   == [vd |-> rd, vs1 |-> rs1, vs2 |-> rs2, vm |-> vm, esz |-> esz,
                vlmax |-> mz \div esz, maxsz |-> MAXSZ(s),
                vl_eq_vlmax |-> (vl = vext_get_vlmax(vtype))]
        st1 == IF ok /\ vl # 0 THEN opivv_helper(insn, P, Env) ELSE Env
    IN /\ pc \in {"exe", "exe2"}
       /\ pc' = IF pc = "exe" /\ vl = ExeSeqVL THEN "exe2" ELSE "done"
       /\ vreg' = st1.vreg
       /\ vxsat' = st1.vxsat
       /\ last' = [op |-> insn, accepted |-> ok, P |-> P, vl0 |-> vl,
                    vreg0 |-> vreg, vxsat0 |-> vxsat]
       /\ UNCHANGED <<vtype, vl, vstart, mstatus_vs, mem, mapped, user_only,
                      vxrm>>

(* ------------------------------------------------------------------ *)
(* Specification of one arithmetic instruction executed from a         *)
(* configured state                                                    *)
(* ------------------------------------------------------------------ *)
\* SEW = 8 with LMUL = 1, SEW = 16 with LMUL = 2, SEW = 8 with LMUL = 1/2
ExeTypeBits == {TypeBits(0, 0, 0, 0, FALSE), TypeBits(1, 1, 0, 0, FALSE),
                TypeBits(7, 0, 0, 0, FALSE)}

\* operand values around the ends of the signed and unsigned ranges, per
\* element size in bytes
ExeValues ==
    <<  <<0, 1, 2, 3, 5, 7, 63, 64, 126, 127, 128, 129, 196, 253, 254, 255>>,
        <<0, 1, 2, 3, 5, 15, 16383, 16384, 32766, 32767, 32768, 32769,
          49164, 65533, 65534, 65535>>  >>
\* rotations of the value list between the two source groups; every
\* rotation is offered to the states with vl = VLMAX, two to the others
ExeRotations == 16

\* register file with the mask byte m in both bytes of v0, the value list
\* in the group at v2, the list rotated by rb in the group at v4, and the
\* byte 170 everywhere else
ExeRegFile(esz, m, rb) ==
    [b \in VregBytes |->
        IF b < 2 THEN m
        ELSE IF b < VLENB THEN 0
        ELSE IF b >= 2 * VLENB /\ b < 2 * VLENB + 16 * esz
        THEN (ExeValues[esz][((b - 2 * VLENB) \div esz) + 1]
                 \div Pow2(8 * (b % esz))) % 256
        ELSE IF b >= 4 * VLENB /\ b < 4 * VLENB + 16 * esz
        THEN (ExeValues[esz][((((b - 4 * VLENB) \div esz) + rb) % 16) + 1]
                 \div Pow2(8 * (b % esz))) % 256
        ELSE 170]

InitExe ==
    /\ vtype \in ExeTypeBits
    /\ vl \in {0, 1, 3, vext_get_vlmax(vtype)}
    /\ vstart = 0
    /\ mstatus_vs = 1
    /\ \E m \in MaskBytes,
          rb \in (IF vl = vext_get_vlmax(vtype)
                  THEN 0 .. (ExeRotations - 1)
                  ELSE {0, ExeRotations \div 2}) :
          vreg = ExeRegFile(Pow2(vtype.vsew), m, rb)
    /\ mem = [a \in 0 .. (MemSize - 1) |-> (7 * a + 1) % 256]
    /\ mapped = 0 .. (NumPages - 1)
    /\ user_only = FALSE
    /\ pc = "exe"
    /\ last = [op |-> "none"]
    /\ vxsat \in {0, 1}
    /\ vxrm \in 0 .. 3

OpivvInsns == {"vadd_vv", "vmseq_vv", "vmadc_vvm", "vsaddu_vv", "vsadd_vv",
               "vssubu_vv", "vssub_vv", "vsmul_vv", "vssrl_vv"}

NextExe ==
    \/ \E insn \in OpivvInsns, vm \in {0, 1},
          mz \in vext_maxsz(DisasContext.lmul) :
          trans_opivv(insn, 8, 4, 2, vm, mz)
    \/ \E vm \in {0, 1}, mz \in vext_maxsz(DisasContext.lmul) :
          trans_vle_v(8, 0, 1, vm, 0, mz)

SpecExe == InitExe /\ [][NextExe]_vars

(* ------------------------------------------------------------------ *)
(* Translators of the divide, reduction, mask-set and permutation      *)
(* instructions                                                        *)
(* ------------------------------------------------------------------ *)
\* the operands an emitted helper receives: registers, vm, the scalar s1
\* of the .vx forms, and the sizes the translator knows
OpDesc(rd, rs1, rs2, vm, s1, mz) ==
    [vd |-> rd, vs1 |-> rs1, vs2 |-> rs2, vm |-> vm, s1 |-> s1,
     esz |-> Pow2(DisasContext.sew), vlmax |-> mz \div Pow2(DisasContext.sew),
     maxsz |-> MAXSZ(DisasContext),
     vl_eq_vlmax |-> (vl = vext_get_vlmax(vtype))]

\* end of a trans_ function: the emitted code has run on the state
Retire(insn, ok, P, st1) ==
    /\ pc \in {"exe", "exe2"}
    /\ pc' = IF pc = "exe" /\ vl = ExeSeqVL THEN "exe2" ELSE "done"
    /\ vreg' = st1.vreg
    /\ mem' = st1.mem
    /\ vl' = st1.vl
    /\ vxsat' = st1.vxsat
    /\ last' = [op |-> insn, accepted |-> ok, fault |-> st1.fault, P |-> P,
                 vl0 |-> vl, vreg0 |-> vreg, vxsat0 |-> vxsat]
    /\ UNCHANGED <<vtype, vstart, mstatus_vs, mapped, user_only, vxrm>>

\* opivx_trans(vd, rs1, vs2, vm, fn, s): the helper is branched over
\* when vl = 0
opivx_trans(insn, P, st) ==
    IF st.vl = 0 THEN st
    ELSE CASE insn = "vslidedown_vx" -> vslidedown_vx(P, st, 0)
           [] insn = "vrgather_vx"   -> vrgather_vx(P, st, 0)

\* GEN_OPIVX_TRANS(vslidedown_vx, slidedown_check); x is the value of
\* the register rs1
trans_vslidedown_vx(rd, rs1, rs2, vm, x, mz) ==
    LET s  == DisasContext
        a  == Args(rd, rs1, rs2, vm, 0, 0, 0)
        ok == slidedown_check(s, a)
        P  == OpDesc(rd, rs1, rs2, vm, x, mz)
    IN Retire("vslidedown_vx", ok, P,
              IF ok THEN opivx_trans("vslidedown_vx", P, Env) ELSE Env)

\* vec_element_loadx(s, dest, vreg, idx, vlmax): the load at the masked
\* index, flushed to zero when idx >= vlmax
vec_element_loadx(rf, reg, idx, vlmax, esz) ==
    LET ofs  == BitAnd(idx, vlmax - 1)
        dest == reg_elem(rf, reg, ofs * esz, esz)
    IN IF idx < vlmax THEN dest ELSE 0

\* vec_element_loadi(s, dest, vreg, idx, sign) with sign = false
vec_element_loadi(rf, reg, idx, esz) == reg_elem(rf, reg, idx * esz, esz)

\* tcg_gen_gvec_dup_i64(s->sew, vreg_ofs(s, rd), MAXSZ(s), MAXSZ(s), dest)
RECURSIVE gvec_dup(_, _, _, _)
gvec_dup(P, rf, i, dest) ==
    IF i * P.esz >= P.maxsz THEN rf
    ELSE gvec_dup(P, set_elem(rf, P.vd, i * P.esz, P.esz, dest),
                  i + 1, dest)

\* trans_vrgather_vx: the splat of one element when vm = 1 and
\* vl = VLMAX, the helper otherwise
trans_vrgather_vx(rd, rs1, rs2, vm, x, mz) ==
    LET s     == DisasContext
        a     == Args(rd, rs1, rs2, vm, 0, 0, 0)
        ok    == vrgather_vx_check(s, a)
        P     == OpDesc(rd, rs1, rs2, vm, x, mz)
        vlmax == IF s.lmul >= 0
                 THEN (VLEN * Pow2(s.lmul)) \div Pow2(s.sew + 3)
                 ELSE (VLEN \div Pow2(0 - s.lmul)) \div Pow2(s.sew + 3)
        dest  == IF rs1 = 0 THEN vec_element_loadi(vreg, rs2, 0, P.esz)
                 ELSE vec_element_loadx(vreg, rs2, x, vlmax, P.esz)
        st1   == IF ~ok THEN Env
                 ELSE IF vm = 1 /\ P.vl_eq_vlmax
                 THEN [Env EXCEPT !.vreg = gvec_dup(P, @, 0, dest)]
                 ELSE opivx_trans("vrgather_vx", P, Env)
    IN Retire("vrgather_vx", ok, P, st1)

\* trans_vcompress_vm: the descriptor carries LMUL only
trans_vcompress_vm(rd, rs1, rs2, mz) ==
    LET s  == DisasContext
        a  == Args(rd, rs1, rs2, 1, 0, 0, 0)
        ok == vcompress_vm_check(s, a)
        P  == OpDesc(rd, rs1, rs2, 1, 0, mz)
    IN Retire("vcompress_vm", ok, P,
              IF ok /\ vl # 0 THEN vcompress_vm(P, Env, 0, 0) ELSE Env)

\* GEN_M_TRANS without the branch over the helper when vl = 0
trans_m_noskip(insn, rd, rs2, vm, mz) ==
    LET s    == DisasContext
        a    == Args(rd, 0, rs2, vm, 0, 0, 0)
        ok   == m_check(s, a)
        P    == OpDesc(rd, 0, rs2, vm, 0, mz)
        type == CASE insn = "vmsbf_m" -> "BEFORE_FIRST"
                  [] insn = "vmsif_m" -> "INCLUDE_FIRST"
                  [] insn = "vmsof_m" -> "ONLY_FIRST"
    IN Retire(insn, ok, P,
              IF ok THEN vmsetm(type, P, Env, 0, FALSE) ELSE Env)

\* GEN_M_TRANS(vmsbf_m), (vmsif_m), (vmsof_m)
trans_m(insn, rd, rs2, vm, mz) ==
    LET s    == DisasContext
        a    == Args(rd, 0, rs2, vm, 0, 0, 0)
        ok   == m_check(s, a)
        P    == OpDesc(rd, 0, rs2, vm, 0, mz)
        type == CASE insn = "vmsbf_m" -> "BEFORE_FIRST"
                  [] insn = "vmsif_m" -> "INCLUDE_FIRST"
                  [] insn = "vmsof_m" -> "ONLY_FIRST"
    IN Retire(insn, ok, P,
              IF ok /\ vl # 0 THEN vmsetm(type, P, Env, 0, FALSE) ELSE Env)

\* GEN_MM_TRANS(vmand_mm), (vmxor_mm): the descriptor carries LMUL only
trans_mm(insn, rd, rs1, rs2, mz) ==
    LET s  == DisasContext
        a  == Args(rd, rs1, rs2, 1, 0, 0, 0)
        ok == mm_check(s, a)
        P  == OpDesc(rd, rs1, rs2, 1, 0, mz)
    IN Retire(insn, ok, P,
              IF ok /\ vl # 0 THEN GEN_VEXT_MASK_VV(insn, P, Env, 0)
              ELSE Env)

(* ------------------------------------------------------------------ *)
(* Specification of one divide, reduction, mask-set or permutation     *)
(* instruction executed from a configured state                        *)
(* ------------------------------------------------------------------ *)
InitPrm == InitExe /\ vxsat = 0 /\ vxrm = 0

\* values of the scalar register of the .vx forms; x0 reads as 0
PrmScalars == {1, 7, 15, 16, 127, 200}
PrmInsns == {"vrgather_vv", "vdivu_vv", "vdiv_vv", "vremu_vv", "vrem_vv",
             "vredsum_vs", "vredmaxu_vs", "vredmax_vs"}
MsetInsns == {"vmsbf_m", "vmsif_m", "vmsof_m"}

NextPrm ==
    \/ \E insn \in PrmInsns, vm \in {0, 1},
          mz \in vext_maxsz(DisasContext.lmul) :
          trans_opivv(insn, 8, 4, 2, vm, mz)
    \/ \E rs1 \in {0, 5}, vm \in {0, 1},
          mz \in vext_maxsz(DisasContext.lmul) :
          \E x \in (IF rs1 = 0 THEN {0} ELSE PrmScalars) :
             trans_vslidedown_vx(8, rs1, 2, vm, x, mz)
    \/ \E rs1 \in {0, 5}, vm \in {0, 1},
          mz \in vext_maxsz(DisasContext.lmul) :
          \E x \in (IF rs1 = 0 THEN {0} ELSE PrmScalars) :
             trans_vrgather_vx(8, rs1, 2, vm, x, mz)
    \/ \E rs1 \in {0, 4}, mz \in vext_maxsz(DisasContext.lmul) :
          trans_vcompress_vm(8, rs1, 2, mz)
    \/ \E insn \in MsetInsns, rs2 \in {2, 4}, vm \in {0, 1},
          mz \in vext_maxsz(DisasContext.lmul) :
          trans_m(insn, 8, rs2, vm, mz)

SpecPrm == InitPrm /\ [][NextPrm]_vars

(* ------------------------------------------------------------------ *)
(* Specification of one segment load or store executed from a          *)
(* configured state with every page mapped                             *)
(* ------------------------------------------------------------------ *)
\* SEW = 8 with LMUL = 1, SEW = 16 with LMUL = 2, SEW = 16 with LMUL = 1/2
SegTypeBits == {TypeBits(0, 0, 0, 0, FALSE), TypeBits(1, 1, 0, 0, FALSE),
                TypeBits(7, 1, 0, 0, FALSE)}

InitSeg ==
    /\ vtype \in SegTypeBits
    /\ vl \in 0 .. MaxMemVL
    /\ vstart = 0
    /\ mstatus_vs = 1
    /\ \E m \in MaskBytes : vreg = RegFile(m, 170, IndexBytes)
    /\ mem = [a \in 0 .. (MemSize - 1) |-> (7 * a + 1) % 256]
    /\ mapped = 0 .. (NumPages - 1)
    /\ user_only = FALSE
    /\ pc = "ready"
    /\ last = [op |-> "none"]
    /\ vxsat = 0
    /\ vxrm = 0

\* base, nf, vm and the index seq of the element width
SegOperands ==
    {<<base, nf, vm, seq>> :
        base \in {0, PageSize - 3}, nf \in {2, 3}, vm \in {0, 1},
        seq \in {0, 1}}

NextSeg ==
    \/ \E o \in SegOperands, mz \in vext_maxsz(DisasContext.lmul) :
          trans_vle_v(8, o[1], o[2], o[3], o[4], mz)
    \/ \E o \in SegOperands, mz \in vext_maxsz(DisasContext.lmul) :
          trans_vse_v(8, o[1], o[2], o[3], o[4], mz)
    \/ \E o \in SegOperands, mz \in vext_maxsz(DisasContext.lmul) :
          trans_vlse_v(8, o[1], PageSize, o[2], o[3], o[4], mz)
    \/ \E o \in SegOperands, mz \in vext_maxsz(DisasContext.lmul) :
          trans_vsse_v(8, o[1], PageSize, o[2], o[3], o[4], mz)

SpecSeg == InitSeg /\ [][NextSeg]_vars

(* ------------------------------------------------------------------ *)
(* Specification of one instruction of each class executed with vl = 0 *)
(* or vl = 1, with every page mapped or none                           *)
(* ------------------------------------------------------------------ *)
\* SEW = 8 with LMUL = 1, SEW = 32 with LMUL = 1
VlzTypeBits == {TypeBits(0, 0, 0, 0, FALSE), TypeBits(0, 2, 0, 0, FALSE)}

\* the states with 32-bit elements have vl = 0 only
InitVlz ==
    /\ vtype \in VlzTypeBits
    /\ vl \in (IF vtype.vsew = 0 THEN {0, 1} ELSE {0})
    /\ vstart = 0
    /\ mstatus_vs = 1
    /\ \E m \in MaskBytes : vreg = RegFile(m, 170, IndexBytes)
    /\ mem = [a \in 0 .. (MemSize - 1) |-> (7 * a + 1) % 256]
    /\ mapped \in {{}, 0 .. (NumPages - 1)}
    /\ user_only = FALSE
    /\ pc \in {"ready", "exe"}
    /\ last = [op |-> "none"]
    /\ vxsat \in {0, 1}
    /\ vxrm = 0

VlzInsns == {"vadd_vv", "vmseq_vv", "vsadd_vv", "vdiv_vv", "vredsum_vs",
             "vrgather_vv"}

NextVlz ==
    \/ \E insn \in VlzInsns, vm \in {0, 1},
          mz \in vext_maxsz(DisasContext.lmul) :
          trans_opivv(insn, 8, 4, 2, vm, mz)
    \/ \E insn \in {"vmand_mm", "vmxor_mm"},
          mz \in vext_maxsz(DisasContext.lmul) :
          trans_mm(insn, 8, 4, 2, mz)
    \/ \E insn \in MsetInsns, vm \in {0, 1},
          mz \in vext_maxsz(DisasContext.lmul) :
          trans_m(insn, 8, 2, vm, mz)
    \/ \E vm \in {0, 1}, mz \in vext_maxsz(DisasContext.lmul) :
          trans_vslidedown_vx(8, 5, 2, vm, 1, mz)
    \/ \E vm \in {0, 1}, mz \in vext_maxsz(DisasContext.lmul) :
          trans_vrgather_vx(8, 5, 2, vm, 1, mz)
    \/ \E mz \in vext_maxsz(DisasContext.lmul) :
          trans_vcompress_vm(8, 0, 2, mz)
    \/ \E vm \in {0, 1}, seq \in {0, 2},
          mz \in vext_maxsz(DisasContext.lmul) :
          trans_vle_v(8, 0, 1, vm, seq, mz)
    \/ \E vm \in {0, 1}, seq \in {0, 2},
          mz \in vext_maxsz(DisasContext.lmul) :
          trans_vse_v(8, 0, 1, vm, seq, mz)
    \/ \E vm \in {0, 1}, seq \in {0, 2},
          mz \in vext_maxsz(DisasContext.lmul) :
          trans_vlse_v(8, 0, PageSize, 1, vm, seq, mz)
    \/ \E vm \in {0, 1}, mz \in vext_maxsz(DisasContext.lmul) :
          trans_vlxei_v(8, 0, 16, 1, vm, 0, mz)
    \/ \E vm \in {0, 1}, seq \in {0, 2},
          mz \in vext_maxsz(DisasContext.lmul) :
          trans_vleff_v(8, 0, 1, vm, seq, mz)
    \/ \E wd \in {0, 1}, vm \in {0, 1}, parallel \in BOOLEAN :
          trans_vamoswapei_v(8, 0, 16, wd, vm, 0, parallel)

SpecVlz == InitVlz /\ [][NextVlz]_vars

(* ------------------------------------------------------------------ *)
(* Properties of the memory instructions                               *)
(* ------------------------------------------------------------------ *)
LdstOps == {"vle", "vse", "vlse", "vsse", "vlxei", "vsxei"}

\* every byte of every field of element i lies in a mapped page
ElemAccessible(P, rf, i) ==
    \A k \in 0 .. (P.nf - 1) : \A b \in 0 .. (P.esz - 1) :
        page_ok(elem_addr(P, rf, i, k) + b)

\* the active elements below n that are not accessible
Failing(P, rf, n) ==
    {i \in 0 .. (n - 1) : elem_active(P, rf, i) /\ ~ElemAccessible(P, rf, i)}

Lowest(S) == CHOOSE i \in S : \A j \in S : i <= j

\* an instruction of the set ops has just been executed (not skipped)
Ran(ops) ==
    /\ pc = "ready" /\ pc' = "done"
    /\ last'.op \in ops /\ last'.accepted /\ vl >= 1

\* C1: a unit-stride, strided or indexed load or store with an active
\* element in [0, vl) that is not accessible raises the fault and leaves
\* the vector registers and guest memory as they were
C1_PreciseException ==
    [][(Ran(LdstOps) /\ Failing(last'.P, vreg, vl) # {})
          => (last'.fault /\ vreg' = vreg /\ mem' = mem /\ vl' = vl)]_vars

\* a faulting load or store whose element 0 was active and accessible
C1_Witness ==
    /\ pc = "done" /\ last.op \in LdstOps /\ last.accepted /\ last.fault
    /\ elem_active(last.P, vreg, 0) /\ ElemAccessible(last.P, vreg, 0)
    /\ \E i \in 1 .. (vl - 1) : i \in Failing(last.P, vreg, vl)

\* C2: a fault-only-first load started with vl = n >= 1 whose lowest
\* failing active element is k >= 1 raises nothing and leaves vl = k; when
\* no element fails vl is still n
C2_FaultOnlyFirst ==
    [][Ran({"vleff"}) =>
         LET F == Failing(last'.P, vreg, vl)
         IN /\ (F # {} /\ Lowest(F) >= 1) => (~last'.fault /\ vl' = Lowest(F))
            /\ (F = {}) => vl' = vl]_vars

\* the destination bytes a fault-only-first load truncated to k elements
\* writes, with the memory address each comes from (fields laid out
\* field-major, one register group after the other)
FieldStride(P) ==
    LET lmul == DisasContext.lmul
    IN (IF lmul >= 0 THEN VLENB * Pow2(lmul)
        ELSE VLENB \div Pow2(0 - lmul)) \div P.esz

Sources(P, rf, k, b) ==
    {elem_addr(P, rf, i, f) + j :
        <<i, f, j>> \in {t \in (0 .. (k - 1)) \X (0 .. (P.nf - 1))
                                              \X (0 .. (P.esz - 1)) :
            /\ elem_active(P, rf, t[1])
            /\ b = P.vd * VLENB + (t[1] + t[2] * FieldStride(P)) * P.esz
                     + t[3]}}

LoadedPrefix(P, rf, m, k) ==
    [b \in VregBytes |->
        LET S == Sources(P, rf, k, b)
        IN IF S = {} THEN rf[b] ELSE m[CHOOSE a \in S : TRUE]]

\* C3: when element k >= 1 is the first that fails, the access phase of a
\* fault-only-first load loads exactly the active elements below k, every
\* field with the value held in memory, and writes nothing else
C3_TruncateBeforeAccess ==
    [][Ran({"vleff"}) =>
         LET F == Failing(last'.P, vreg, vl)
         IN (F # {} /\ Lowest(F) >= 1) =>
               /\ vreg' = LoadedPrefix(last'.P, vreg, mem, Lowest(F))
               /\ mem' = mem]_vars

\* C4 as stated: every fault-only-first load with vl >= 1, masked or
\* not, faults when the address of element 0 is not accessible
C4_Element0AlwaysProbed ==
    [][(Ran({"vleff"}) /\ ~ElemAccessible(last'.P, vreg, 0))
          => last'.fault]_vars

\* C4: a fault-only-first load with vl >= 1 whose element 0 is active
\* (unmasked, or mask bit 0 set) faults when the address of element 0 is
\* not accessible, and modifies nothing
C4_ActiveElement0Probed ==
    [][(Ran({"vleff"}) /\ elem_active(last'.P, vreg, 0)
                       /\ ~ElemAccessible(last'.P, vreg, 0))
          => (last'.fault /\ vreg' = vreg /\ vl' = vl)]_vars

\* a masked fault-only-first load that faulted on its active element 0
C4_Witness ==
    /\ pc = "done" /\ last.op = "vleff" /\ last.accepted /\ last.vl0 >= 1
    /\ last.P.vm = 0 /\ elem_active(last.P, vreg, 0)
    /\ ~ElemAccessible(last.P, vreg, 0) /\ last.fault

(* ------------------------------------------------------------------ *)
(* Properties of the configuration instructions                        *)
(* ------------------------------------------------------------------ *)
CfgOps == {"vsetvl", "vsetvli"}

SEW(tb) == 8 * Pow2(tb.vsew)

\* VLMAX = (VLEN / SEW) * LMUL
VLMAX(tb) ==
    LET e == sextract3(tb.vlmul)
    IN IF e >= 0 THEN (VLEN \div SEW(tb)) * Pow2(e)
       ELSE (VLEN \div SEW(tb)) \div Pow2(0 - e)

\* a fractional LMUL (exponent <= -1) with (ELEN >> |exponent|) < SEW
FracTooSmall(tb) ==
    LET e == sextract3(tb.vlmul)
    IN e <= -1 /\ (ELEN \div Pow2(0 - e)) < SEW(tb)

\* type bits that describe a legal configuration
LegalTypeBits(tb) ==
    /\ ~tb.vill /\ tb.reserved = 0 /\ tb.ediv = 0
    /\ SEW(tb) <= ELEN
    /\ ~FracTooSmall(tb)

\* a configuration instruction has just run the helper
Configured == last.op \in CfgOps /\ last.accepted

\* C5: in every state reached by configuration instructions and
\* fault-only-first loads, a legal vtype comes with 0 <= vl <= VLMAX
C5_VlWithinVlmax == (~vtype.vill) => (vl >= 0 /\ vl <= VLMAX(vtype))

\* a fault-only-first load has truncated vl under a legal vtype
C5_Witness ==
    /\ last.op = "vleff" /\ last.accepted /\ ~last.fault /\ ~vtype.vill
    /\ vl >= 1 /\ vl < last.vl0

\* C6: for legal type bits the configuration sets vl to
\* min(request, VLMAX) and returns that value
C6_SetConfigMin ==
    (Configured /\ LegalTypeBits(last.s2)) =>
        /\ vl = MIN(last.s1, VLMAX(last.s2))
        /\ last.ret = vl
        /\ vtype = last.s2

\* SEW = 32, LMUL = 1, request 6 gives vl = 4
C6_Witness ==
    /\ Configured /\ last.s2 = TypeBits(0, 2, 0, 0, FALSE) /\ last.s1 = MaxAVL
    /\ vl = 4 /\ last.ret = 4

\* C7: a fractional LMUL too small for SEW, nonzero reserved bits, or
\* SEW > ELEN leave vtype illegal and vl = 0
C7_IllegalConfig ==
    (Configured /\ (\/ FracTooSmall(last.s2)
                    \/ last.s2.reserved # 0
                    \/ SEW(last.s2) > ELEN)) =>
        (vtype.vill /\ vl = 0)

\* LMUL = 1/2 with SEW = 64 was requested with a nonzero length
C7_Witness ==
    /\ Configured /\ last.s2 = TypeBits(7, 3, 0, 0, FALSE) /\ last.s1 >= 1
    /\ vtype.vill /\ vl = 0

\* C8 as stated: zero reserved bits, SEW <= ELEN and an LMUL that is not
\* a too-small fraction never give an illegal vtype
C8_OnlyPath ==
    (Configured /\ last.s2.reserved = 0 /\ SEW(last.s2) <= ELEN
                /\ ~FracTooSmall(last.s2)) =>
        ~vtype.vill

\* C8: zero reserved bits, a zero ediv field, a clear vill bit,
\* SEW <= ELEN and an LMUL that is not a too-small fraction never give an
\* illegal vtype
C8_OnlyPathAmended ==
    (Configured /\ last.s2.reserved = 0 /\ SEW(last.s2) <= ELEN
                /\ ~FracTooSmall(last.s2)
                /\ last.s2.ediv = 0 /\ ~last.s2.vill) =>
        ~vtype.vill

\* a fractional LMUL that exactly fits (ELEN >> 1 = SEW) was accepted
C8_Witness ==
    /\ Configured /\ last.s2 = TypeBits(7, 2, 0, 0, FALSE)
    /\ ~vtype.vill /\ vtype = last.s2

(* ------------------------------------------------------------------ *)
(* Properties of the translator's legality checks                      *)
(* ------------------------------------------------------------------ *)
Translated == last.op = "translate"

\* the instructions that ignore vtype: whole-register loads, stores, moves
IgnoresVtype(insn) == insn \in WholeInsns

\* C9: while vtype.vill is set, every vector instruction that depends on
\* vtype (all but the configuration and whole-register instructions) is
\* rejected as an illegal instruction.
C9_IllegalVtypeRejectsAll ==
    (Translated /\ vtype.vill /\ ~IgnoresVtype(last.insn)) => ~last.accepted

\* ceil(EMUL) of a group whose EMUL is 2^e, 1 when EMUL < 1
CeilEmul(e) == IF e <= 0 THEN 1 ELSE Pow2(e)

\* EMUL exponent of an operand of effective element width eew bits
EmulExp(tb, eew) == Log2(eew) - Log2(SEW(tb)) + sextract3(tb.vlmul)

\* the vector operands of an instruction that name register groups, each
\* with the exponent of its EMUL, as the V extension defines them
GroupOperands(tb, insn, a) ==
    LET L == sextract3(tb.vlmul)
        E == EmulExp(tb, a.eew)
    IN CASE insn \in {"vadd_vv", "vadc_vvm", "vfadd_vv", "vrgather_vv"} ->
               {<<a.rd, L>>, <<a.rs1, L>>, <<a.rs2, L>>}
         [] insn \in {"vadd_vx", "vadc_vxm", "vfadd_vf", "vslideup_vx",
                      "vslidedown_vx", "vrgather_vx", "vfsqrt_v",
                      "vcompress_vm"} ->
               {<<a.rd, L>>, <<a.rs2, L>>}
         [] insn \in {"vwadd_vv", "vfwadd_vv"} ->
               {<<a.rd, L + 1>>, <<a.rs1, L>>, <<a.rs2, L>>}
         [] insn \in {"vwadd_vx", "vfwadd_vf", "vfwcvt_f_f_v"} ->
               {<<a.rd, L + 1>>, <<a.rs2, L>>}
         [] insn \in {"vwadd_wv", "vfwadd_wv"} ->
               {<<a.rd, L + 1>>, <<a.rs1, L>>, <<a.rs2, L + 1>>}
         [] insn \in {"vwadd_wx", "vfwadd_wf"} ->
               {<<a.rd, L + 1>>, <<a.rs2, L + 1>>}
         [] insn = "vnsrl_wv" ->
               {<<a.rd, L>>, <<a.rs1, L>>, <<a.rs2, L + 1>>}
         [] insn \in {"vnsrl_wx", "vfncvt_f_f_v"} ->
               {<<a.rd, L>>, <<a.rs2, L + 1>>}
         [] insn \in {"vmadc_vvm", "vmseq_vv", "vmfeq_vv"} ->
               {<<a.rs1, L>>, <<a.rs2, L>>}
         [] insn \in {"vmadc_vxm", "vmseq_vx", "vmfeq_vf", "vredsum_vs",
                      "vwredsum_vs", "vfwredsum_vs"} ->
               {<<a.rs2, L>>}
         [] insn = "vrgatherei16_vv" ->
               {<<a.rd, L>>, <<a.rs1, EmulExp(tb, 16)>>, <<a.rs2, L>>}
         [] insn = "vzext_vf2" -> {<<a.rd, L>>, <<a.rs2, L - 1>>}
         [] insn = "vzext_vf4" -> {<<a.rd, L>>, <<a.rs2, L - 2>>}
         [] insn = "vzext_vf8" -> {<<a.rd, L>>, <<a.rs2, L - 3>>}
         [] insn \in {"viota_m", "vid_v", "vmv_v_x", "vfmv_v_f"} ->
               {<<a.rd, L>>}
         [] insn = "vmv_v_v" -> {<<a.rd, L>>, <<a.rs1, L>>}
         [] insn \in UsInsns -> {<<a.rd, E>>}
         [] insn \in IndexInsns \cup {"vamoadd_v"} ->
               {<<a.rd, L>>, <<a.rs2, E>>}
         [] insn \in {"vlr_v", "vsr_v"} -> {<<a.rd, Log2(a.nf)>>}
         [] insn = "vmvr_v" -> {<<a.rd, Log2(a.nf)>>, <<a.rs2, Log2(a.nf)>>}
         [] OTHER -> {}

\* C10: an instruction the legality checks accept under a legal vtype has
\* every register-group operand (destination and vector sources) at a
\* register number that is a multiple of ceil(EMUL); EMUL < 1 allows any.
C10_GroupAlignment ==
    (Translated /\ last.accepted /\ ~vtype.vill) =>
       \A o \in GroupOperands(vtype, last.insn, last.a) :
          o[1] % CeilEmul(o[2]) = 0

\* an accepted widening add at LMUL = 2: destination group of 4 at v4 or
\* above, sources in aligned pairs
C10_Witness ==
    /\ Translated /\ last.accepted /\ ~vtype.vill
    /\ last.insn = "vwadd_vv"
    /\ sextract3(vtype.vlmul) = 1
    /\ last.a.rd # 0 /\ last.a.rs2 # 0

\* some register-group operand has an EMUL below 1/8 or above 8
EmulOutOfRange(tb, insn, a) ==
    \E o \in GroupOperands(tb, insn, a) : o[2] < -3 \/ o[2] > 3

\* C11: under a legal vtype, an instruction with an operand whose
\* EMUL = (EEW / SEW) * LMUL is below 1/8 or above 8 is rejected.
C11_EmulRange ==
    (Translated /\ ~vtype.vill /\ EmulOutOfRange(vtype, last.insn, last.a))
       => ~last.accepted

\* a unit-stride load of 64-bit elements at SEW = 8, LMUL = 2 (EMUL 16),
\* otherwise well formed, is rejected on an enabled vector unit
C11_Witness ==
    /\ Translated /\ ~vtype.vill /\ mstatus_vs # 0
    /\ EmulOutOfRange(vtype, last.insn, last.a)
    /\ last.insn = "vle_v" /\ last.a.rd = 0 /\ last.a.nf = 1 /\ last.a.vm = 1
    /\ ~last.accepted

\* the registers of the group of EMUL 2^e that starts at reg
Group(reg, e) == reg .. (reg + CeilEmul(e) - 1)

\* destination and vector source of the non-widening instructions, as
\* <<vd, EMUL exponent of vd, vs, EMUL exponent of vs>>; a mask register
\* is a group of one
NonWideningPairs(tb, insn, a) ==
    LET L == sextract3(tb.vlmul)
    IN CASE insn \in {"vadd_vv", "vadc_vvm", "vfadd_vv", "vrgather_vv"} ->
               {<<a.rd, L, a.rs1, L>>, <<a.rd, L, a.rs2, L>>}
         [] insn \in {"vadd_vx", "vadc_vxm", "vfadd_vf", "vfsqrt_v",
                      "vslideup_vx", "vslidedown_vx", "vrgather_vx"} ->
               {<<a.rd, L, a.rs2, L>>}
         [] insn = "vnsrl_wv" ->
               {<<a.rd, L, a.rs1, L>>, <<a.rd, L, a.rs2, L + 1>>}
         [] insn \in {"vnsrl_wx", "vfncvt_f_f_v"} ->
               {<<a.rd, L, a.rs2, L + 1>>}
         [] insn \in {"vmadc_vvm", "vmseq_vv", "vmfeq_vv"} ->
               {<<a.rd, 0, a.rs1, L>>, <<a.rd, 0, a.rs2, L>>}
         [] insn \in {"vmadc_vxm", "vmseq_vx", "vmfeq_vf"} ->
               {<<a.rd, 0, a.rs2, L>>}
         [] insn = "vrgatherei16_vv" ->
               {<<a.rd, L, a.rs1, EmulExp(tb, 16)>>, <<a.rd, L, a.rs2, L>>}
         [] insn = "vcompress_vm" ->
               {<<a.rd, L, a.rs1, 0>>, <<a.rd, L, a.rs2, L>>}
         [] OTHER -> {}

\* the two groups share no register, or start at the same register
DisjointOrSame(p) ==
    p[1] # p[3] => Group(p[1], p[2]) \cap Group(p[3], p[4]) = {}

\* C12: in an accepted non-widening instruction the destination group and
\* each vector source group have no register in common unless both have
\* the same register number.
C12_NoOverlap ==
    (Translated /\ last.accepted /\ ~vtype.vill) =>
       \A p \in NonWideningPairs(vtype, last.insn, last.a) : DisjointOrSame(p)

\* destination and narrower vector source of the widening instructions,
\* as <<vd, EMUL exponent of vd, vs, EMUL exponent of vs>>
WideningPairs(tb, insn, a) ==
    LET L == sextract3(tb.vlmul)
        E == EmulExp(tb, a.eew)
    IN CASE insn \in {"vwadd_vv", "vfwadd_vv"} ->
               {<<a.rd, L + 1, a.rs1, L>>, <<a.rd, L + 1, a.rs2, L>>}
         [] insn \in {"vwadd_vx", "vfwadd_vf", "vfwcvt_f_f_v"} ->
               {<<a.rd, L + 1, a.rs2, L>>}
         [] insn \in {"vwadd_wv", "vfwadd_wv"} -> {<<a.rd, L + 1, a.rs1, L>>}
         [] insn = "vzext_vf2" -> {<<a.rd, L, a.rs2, L - 1>>}
         [] insn = "vzext_vf4" -> {<<a.rd, L, a.rs2, L - 2>>}
         [] insn = "vzext_vf8" -> {<<a.rd, L, a.rs2, L - 3>>}
         [] insn = "vlxei_v" /\ E < L -> {<<a.rd, L, a.rs2, E>>}
         [] OTHER -> {}

\* the upper half of the group of EMUL 2^e at reg; a group of one
\* register has none
UpperHalf(reg, e) ==
    IF e <= 0 THEN {} ELSE (reg + Pow2(e - 1)) .. (reg + Pow2(e) - 1)

\* C13: in an accepted widening instruction every register the
\* destination group shares with a narrower source group lies in the
\* upper half of the destination group.
C13_WidenOverlapUpperHalf ==
    (Translated /\ last.accepted /\ ~vtype.vill) =>
       \A p \in WideningPairs(vtype, last.insn, last.a) :
          (Group(p[1], p[2]) \cap Group(p[3], p[4])) \subseteq
             UpperHalf(p[1], p[2])

\* an accepted vwadd.vv at LMUL = 2 whose source vs2 is the upper half of
\* the destination group
C13_Witness ==
    /\ Translated /\ last.accepted /\ ~vtype.vill
    /\ last.insn = "vwadd_vv" /\ sextract3(vtype.vlmul) = 1
    /\ last.a.rs2 = last.a.rd + 2

(* ------------------------------------------------------------------ *)
(* Properties of the arithmetic instructions                           *)
(* ------------------------------------------------------------------ *)
\* an instruction of the given set was translated, accepted and executed
\* under a legal vtype
Executed(ops) == last.op \in ops /\ last.accepted /\ ~vtype.vill

\* mask bit i of vector register reg
MaskBit(rf, reg, i) == vext_elem_mask(rf, reg * VLEN + i)

\* C14: after a mask-producing instruction (compare, carry-out) accepted
\* under a legal vtype with vl < VLMAX, every mask bit of the destination
\* register from vl up to VLMAX - 1 is 0.
C14_MaskTailZero ==
    (Executed({"vmseq_vv", "vmadc_vvm"}) /\ vl < VLMAX(vtype)) =>
        \A i \in vl .. (VLMAX(vtype) - 1) : MaskBit(vreg, last.P.vd, i) = 0

\* byte b of the register file lies in an element of the destination group
\* that the instruction computes: index below vl and not masked off
Computed(b) ==
    \E i \in 0 .. (last.vl0 - 1) :
       /\ elem_active(last.P, last.vreg0, i)
       /\ b >= last.P.vd * VLENB + i * last.P.esz
       /\ b < last.P.vd * VLENB + (i + 1) * last.P.esz

\* C15: a plain arithmetic instruction leaves every destination element
\* at index >= vl, and every masked-off element at index < vl,
\* byte-identical (no other byte of the register file changes either).
C15_UndisturbedElements ==
    Executed({"vadd_vv"}) =>
        \A b \in VregBytes : ~Computed(b) => vreg[b] = last.vreg0[b]

\* a masked vadd.vv with vl = 3 < VLMAX, element 1 masked off, that wrote
\* the destination
C15_Witness ==
    /\ Executed({"vadd_vv"}) /\ last.P.vm = 0
    /\ vl = 3 /\ vl < VLMAX(vtype)
    /\ vext_elem_mask(last.vreg0, 1) = 0
    /\ vreg # last.vreg0

SatOps == {"vsaddu_vv", "vsadd_vv", "vssubu_vv", "vssub_vv", "vsmul_vv"}

\* v / 2^s rounded to an integer in rounding mode rm: 0 to nearest with
\* ties up, 1 to nearest with ties to even, 2 down, 3 to odd
Rounded(rm, v, s) ==
    LET q == v \div Pow2(s)
        r == v % Pow2(s)
    IN IF r = 0 THEN q
       ELSE CASE rm = 0 -> IF 2 * r >= Pow2(s) THEN q + 1 ELSE q
              [] rm = 1 -> IF 2 * r > Pow2(s) THEN q + 1
                           ELSE IF 2 * r < Pow2(s) THEN q
                           ELSE IF q % 2 = 0 THEN q ELSE q + 1
              [] rm = 2 -> q
              [] rm = 3 -> IF q % 2 = 1 THEN q ELSE q + 1

\* the exact (for the multiply: rounded) result of element i, from the
\* operand values before the instruction
Exact(i) ==
    LET w == 8 * last.P.esz
        a == reg_elem(last.vreg0, last.P.vs2, i * last.P.esz, last.P.esz)
        b == reg_elem(last.vreg0, last.P.vs1, i * last.P.esz, last.P.esz)
    IN CASE last.op = "vsaddu_vv" -> a + b
         [] last.op = "vsadd_vv"  -> sext(w, a) + sext(w, b)
         [] last.op = "vssubu_vv" -> a - b
         [] last.op = "vssub_vv"  -> sext(w, a) - sext(w, b)
         [] last.op = "vsmul_vv"  ->
               Rounded(vxrm, sext(w, a) * sext(w, b), w - 1)

\* x clamped to the range of the destination element type
Clamped(x) ==
    LET w  == 8 * last.P.esz
        lo == IF last.op \in {"vsaddu_vv", "vssubu_vv"} THEN 0
              ELSE 0 - Pow2(w - 1)
        hi == IF last.op \in {"vsaddu_vv", "vssubu_vv"} THEN Pow2(w) - 1
              ELSE Pow2(w - 1) - 1
    IN IF x < lo THEN lo ELSE IF x > hi THEN hi ELSE x

ActiveElems == {i \in 0 .. (last.vl0 - 1) : elem_active(last.P, last.vreg0, i)}

\* C16: for the saturating add, subtract and fractional multiply (signed
\* and unsigned), every computed element is the exact (for the multiply:
\* rounded) result clamped to the element type's range, and vxsat is 1
\* after the instruction exactly when some element was clamped, and
\* otherwise keeps its previous value.
C16_SaturatingResult ==
    Executed(SatOps) =>
        /\ \A i \in ActiveElems :
              reg_elem(vreg, last.P.vd, i * last.P.esz, last.P.esz)
                 = zext(8 * last.P.esz, Clamped(Exact(i)))
        /\ vxsat = IF \E i \in ActiveElems : Clamped(Exact(i)) # Exact(i)
                   THEN 1 ELSE last.vxsat0

\* C17: vxsat is set-only: no vector instruction (integer, fixed-point,
\* compare, memory) changes vxsat from 1 to 0.
C17_VxsatSetOnly == [][vxsat = 1 => vxsat' = 1]_vars

\* a saturating instruction ran with vxsat already 1, clamped no element,
\* and vxsat is still 1
C17_Witness ==
    /\ Executed(SatOps) /\ ActiveElems # {}
    /\ \A i \in ActiveElems : Clamped(Exact(i)) = Exact(i)
    /\ last.vxsat0 = 1 /\ vxsat = 1

\* the value and the shift amount that element i of a scaling shift or of
\* a fractional multiply hands to get_round
RoundInput(i) ==
    LET w == 8 * last.P.esz
        a == reg_elem(last.vreg0, last.P.vs2, i * last.P.esz, last.P.esz)
        b == reg_elem(last.vreg0, last.P.vs1, i * last.P.esz, last.P.esz)
    IN IF last.op = "vssrl_vv" THEN [v |-> a, s |-> b % w]
       ELSE [v |-> sext(w, a) * sext(w, b), s |-> w - 1]

\* C18: in each of the four rounding modes and for every shift s >= 1,
\* (v >> s) + get_round(vxrm, v, s) is v / 2^s rounded in that mode, and
\* get_round returns 0 when s = 0; the scaling shift stores that value.
C18_RoundingIncrement ==
    Executed({"vssrl_vv", "vsmul_vv"}) =>
        \A i \in ActiveElems :
           LET x == RoundInput(i)
           IN /\ (x.v \div Pow2(x.s)) + get_round(vxrm, x.v, x.s)
                    = Rounded(vxrm, x.v, x.s)
              /\ x.s = 0 => get_round(vxrm, x.v, x.s) = 0
              /\ last.op = "vssrl_vv" =>
                    reg_elem(vreg, last.P.vd, i * last.P.esz, last.P.esz)
                       = Rounded(vxrm, x.v, x.s)

\* a scaling shift in round-to-nearest-even mode rounded a tie down to an
\* even quotient, and rounded another element up
C18_Witness ==
    /\ Executed({"vssrl_vv"}) /\ vxrm = 1
    /\ \E i \in ActiveElems :
          LET x == RoundInput(i)
          IN /\ x.s >= 1 /\ 2 * (x.v % Pow2(x.s)) = Pow2(x.s)
             /\ get_round(vxrm, x.v, x.s) = 0
    /\ \E i \in ActiveElems :
          get_round(vxrm, RoundInput(i).v, RoundInput(i).s) = 1

\* C19: a legal vector AMO translated under CF_PARALLEL reads and writes
\* no memory (so raises no fault) and writes no vector register, and
\* always requests the restart under exclusive execution.
C19_ParallelAmoExits ==
    [][(last'.op = "vamoswap" /\ last'.accepted /\ last'.P.cf_parallel) =>
          /\ mem' = mem /\ vreg' = vreg
          /\ ~last'.fault /\ last'.P.exit_atomic]_vars

\* an accepted unmasked AMO under CF_PARALLEL with vl > 0 whose element 0
\* lies in an unmapped page
C19_Witness ==
    /\ last.op = "vamoswap" /\ last.accepted /\ last.P.cf_parallel
    /\ vl > 0 /\ last.P.vm = 1 /\ last.P.exit_atomic
    /\ ~page_ok(get_index_addr(last.P.base, 0, vreg, last.P.vs2, last.P.isz))

\* a step of the "keep vl" form (rd = x0 and rs1 = x0) of vsetvl or vsetvli
KeepVlStep ==
    last'.op \in CfgOps /\ SetConfig(last'.op, 0, 0, 0, last'.s2)

\* C20: the "keep previous vl" encoding (rd = x0 and rs1 = x0) with legal
\* new type bits sets vl to min(previous vl, new VLMAX) and installs the
\* type bits.
C20_KeepVl ==
    [][(KeepVlStep /\ last'.accepted /\ LegalTypeBits(last'.s2)) =>
          /\ vl' = MIN(vl, VLMAX(last'.s2))
          /\ vtype' = last'.s2]_vars

\* the previous vl = 4 (which no other form requests) was clamped to the
\* new VLMAX = 2
C20_Witness ==
    /\ Configured /\ LegalTypeBits(last.s2) /\ last.s1 = 4
    /\ VLMAX(vtype) = 2 /\ vl = 2

(* ------------------------------------------------------------------ *)
(* Properties of the permutation, divide, reduction and mask-set       *)
(* instructions                                                        *)
(* ------------------------------------------------------------------ *)
\* element i of the group at reg, in the register file rf
Elem(rf, reg, i) == reg_elem(rf, reg, i * last.P.esz, last.P.esz)

\* the body elements whose bit in the mask register vs1 was set
Selected ==
    {i \in 0 .. (last.vl0 - 1) : MaskBit(last.vreg0, last.P.vs1, i) = 1}
\* number of selected elements below i
Rank(i) == Cardinality({j \in Selected : j < i})

\* C21: vcompress.vm packs the selected elements of vs2, in ascending
\* order, into the destination elements 0 .. num - 1, and changes no
\* byte of the register file at or beyond destination element num
C21_CompressPacks ==
    Executed({"vcompress_vm"}) =>
        /\ \A i \in Selected :
              Elem(vreg, last.P.vd, Rank(i)) = Elem(last.vreg0, last.P.vs2, i)
        /\ \A b \in VregBytes :
              (b < last.P.vd * VLENB
               \/ b >= last.P.vd * VLENB + Cardinality(Selected) * last.P.esz)
              => vreg[b] = last.vreg0[b]
\* three elements are selected, one of them moves down, and unselected
\* body elements lie beyond the packed ones
C21_Witness ==
    /\ Executed({"vcompress_vm"})
    /\ Cardinality(Selected) >= 3
    /\ \E i \in Selected : Rank(i) < i
    /\ last.vl0 > Cardinality(Selected)

\* C25: after an accepted vslidedown.vx with offset o, every active body
\* element i of the destination is vs2[i + o] when i + o < VLMAX and 0
\* when i + o >= VLMAX, VLMAX being the element count of the group
C25_SlideDownZero ==
    Executed({"vslidedown_vx"}) =>
        \A i \in ActiveElems :
            Elem(vreg, last.P.vd, i) =
                IF i + last.P.s1 < vext_get_vlmax(vtype)
                THEN Elem(last.vreg0, last.P.vs2, i + last.P.s1)
                ELSE 0

\* the index an element of a register gather uses: vs1[i] in the .vv
\* form, the scalar in the .vx form
GatherIndex(i) ==
    IF last.op = "vrgather_vv" THEN Elem(last.vreg0, last.P.vs1, i)
    ELSE last.P.s1

\* C26: after an accepted register gather, every active body element of
\* the destination is 0 when its index is at or beyond VLMAX and
\* vs2[index] otherwise
C26_GatherZero ==
    Executed({"vrgather_vv", "vrgather_vx"}) =>
        \A i \in ActiveElems :
            Elem(vreg, last.P.vd, i) =
                IF GatherIndex(i) >= vext_get_vlmax(vtype) THEN 0
                ELSE Elem(last.vreg0, last.P.vs2, GatherIndex(i))

DivInsns == {"vdivu_vv", "vdiv_vv", "vremu_vv", "vrem_vv"}
Abs(x) == IF x < 0 THEN 0 - x ELSE x
\* q is the quotient of n by m truncated toward zero, m # 0
IsTruncQuot(n, m, q) ==
    LET r == n - q * m
    IN Abs(r) < Abs(m) /\ (r = 0 \/ (r < 0) = (n < 0))
\* r is the remainder matching the truncated quotient, m # 0
IsTruncRem(n, m, r) ==
    Abs(r) < Abs(m) /\ (r = 0 \/ (r < 0) = (n < 0)) /\ (n - r) % Abs(m) = 0
\* the result res of dividing the element values n by m at width w
DivResultOk(insn, w, n, m, res) ==
    LET sn  == sext(w, n)
        sm  == sext(w, m)
        min == 0 - Pow2(w - 1)
    IN CASE insn = "vdivu_vv" ->
                IF m = 0 THEN res = Pow2(w) - 1 ELSE IsTruncQuot(n, m, res)
         [] insn = "vremu_vv" ->
                IF m = 0 THEN res = n ELSE IsTruncRem(n, m, res)
         [] insn = "vdiv_vv" ->
                IF sm = 0 THEN res = Pow2(w) - 1
                ELSE IF sn = min /\ sm = -1 THEN sext(w, res) = min
                ELSE IsTruncQuot(sn, sm, sext(w, res))
         [] insn = "vrem_vv" ->
                IF sm = 0 THEN res = n
                ELSE IF sn = min /\ sm = -1 THEN res = 0
                ELSE IsTruncRem(sn, sm, sext(w, res))

\* C27: every active body element of an integer divide or remainder is
\* all-ones (quotient) or the dividend (remainder) for a zero divisor,
\* the minimum (quotient) or 0 (remainder) for the signed minimum divided
\* by -1, and the truncating quotient or its remainder otherwise
C27_DivideDefined ==
    Executed(DivInsns) =>
        \A i \in ActiveElems :
            DivResultOk(last.op, 8 * last.P.esz,
                        Elem(last.vreg0, last.P.vs2, i),
                        Elem(last.vreg0, last.P.vs1, i),
                        Elem(vreg, last.P.vd, i))
\* a signed divide met a zero divisor, the minimum divided by -1, and a
\* negative dividend with a nonzero remainder in its active elements
C27_Witness ==
    /\ Executed({"vdiv_vv"})
    /\ \E i \in ActiveElems : Elem(last.vreg0, last.P.vs1, i) = 0
    /\ \E i \in ActiveElems :
          /\ Elem(last.vreg0, last.P.vs2, i) = Pow2(8 * last.P.esz - 1)
          /\ Elem(last.vreg0, last.P.vs1, i) = Pow2(8 * last.P.esz) - 1
    /\ \E i \in ActiveElems :
          /\ Elem(last.vreg0, last.P.vs2, i) = Pow2(8 * last.P.esz) - 3
          /\ Elem(last.vreg0, last.P.vs1, i) = 2

RedInsns == {"vredsum_vs", "vredmaxu_vs", "vredmax_vs"}
\* the reduction operator on element values of the current width
RedSpec(a, b) ==
    LET w == 8 * last.P.esz
    IN CASE last.op = "vredsum_vs"  -> (a + b) % Pow2(w)
         [] last.op = "vredmaxu_vs" -> IF a >= b THEN a ELSE b
         [] last.op = "vredmax_vs"  ->
                IF (a + Pow2(w - 1)) % Pow2(w) >= (b + Pow2(w - 1)) % Pow2(w)
                THEN a ELSE b
\* the accumulator after the elements below n have been folded
RECURSIVE Fold(_)
Fold(n) ==
    IF n = 0 THEN Elem(last.vreg0, last.P.vs1, 0)
    ELSE IF elem_active(last.P, last.vreg0, n - 1)
    THEN RedSpec(Fold(n - 1), Elem(last.vreg0, last.P.vs2, n - 1))
    ELSE Fold(n - 1)

\* C28: an accepted reduction with vl >= 1 leaves in vd[0] the
\* left-to-right fold of the active elements of vs2 starting from vs1[0],
\* and changes no other byte of the register file
C28_ReductionFold ==
    (Executed(RedInsns) /\ last.vl0 >= 1) =>
        /\ Elem(vreg, last.P.vd, 0) = Fold(last.vl0)
        /\ \A b \in VregBytes :
              (b < last.P.vd * VLENB \/ b >= last.P.vd * VLENB + last.P.esz)
              => vreg[b] = last.vreg0[b]
\* a masked sum over a full group whose result differs from vs1[0] and
\* from the fold of all elements
C28_Witness ==
    /\ Executed({"vredsum_vs"})
    /\ last.P.vm = 0
    /\ last.vl0 = vext_get_vlmax(vtype)
    /\ ActiveElems # {} /\ ActiveElems # 0 .. (last.vl0 - 1)
    /\ Elem(vreg, last.P.vd, 0) # Elem(last.vreg0, last.P.vs1, 0)

\* the active body elements whose bit in the source mask vs2 was set
SetActive == {i \in ActiveElems : MaskBit(last.vreg0, last.P.vs2, i) = 1}
\* the bit vmsbf / vmsif / vmsof give element i when the first set active
\* element is f
SetBit(i, f) ==
    CASE last.op = "vmsbf_m" -> IF i < f THEN 1 ELSE 0
      [] last.op = "vmsif_m" -> IF i <= f THEN 1 ELSE 0
      [] last.op = "vmsof_m" -> IF i = f THEN 1 ELSE 0

\* C29: after an accepted vmsbf.m, vmsif.m or vmsof.m, with f the lowest
\* active index below vl whose vs2 bit is set, the active elements below
\* f hold 1/1/0, element f holds 0/1/1 and the active elements above f
\* hold 0; with no such f every active element holds 1/1/0; the inactive
\* elements below vl are unchanged
C29_SetFirst ==
    Executed(MsetInsns) =>
        \A i \in 0 .. (last.vl0 - 1) :
            MaskBit(vreg, last.P.vd, i) =
                IF i \notin ActiveElems THEN MaskBit(last.vreg0, last.P.vd, i)
                ELSE IF SetActive = {} THEN SetBit(i, last.vl0)
                ELSE SetBit(i, CHOOSE f \in SetActive :
                                   \A j \in SetActive : f <= j)
\* a masked instruction whose first set active element has active
\* elements on both sides and an inactive set element below it
C29_Witness ==
    /\ Executed(MsetInsns)
    /\ last.P.vm = 0
    /\ \E f \in SetActive :
          /\ \A j \in SetActive : f <= j
          /\ \E i \in ActiveElems : i < f
          /\ \E i \in ActiveElems : i > f
          /\ \E i \in 0 .. (f - 1) :
                i \notin ActiveElems /\ MaskBit(last.vreg0, last.P.vs2, i) = 1

(* ------------------------------------------------------------------ *)
(* Properties of the segment loads and stores                          *)
(* ------------------------------------------------------------------ *)
\* the registers of the nf destination groups of a segment access at vd,
\* each of LMUL exponent e
SegmentRegs(vd, nf, e) == vd .. (vd + nf * CeilEmul(e) - 1)

\* C24: an accepted indexed segment load (nf > 1) has no register of its
\* nf destination groups in common with the index group at vs2
C24_SegmentIndexDisjoint ==
    (Translated /\ last.accepted /\ ~vtype.vill
     /\ last.insn = "vlxei_v" /\ last.a.nf > 1) =>
        SegmentRegs(last.a.rd, last.a.nf, sextract3(vtype.vlmul))
        \cap Group(last.a.rs2, EmulExp(vtype, last.a.eew)) = {}

\* the segment loads and stores with unit-stride and strided addressing
SegmentOps == {"vle", "vse", "vlse", "vsse"}
SegmentExecuted(ops) ==
    last.op \in ops /\ last.accepted /\ ~vtype.vill /\ last.P.nf > 1
\* the pairs (element, field) the helper accesses
SegmentPairs ==
    {p \in (0 .. (last.vl0 - 1)) \X (0 .. (last.P.nf - 1)) :
        elem_active(last.P, vreg, p[1])}
\* first byte, in the register file, of the element the helper accesses
\* for field k of element i: element i + k * vlmax of the group at vd
FieldByte(i, k) ==
    last.P.vd * VLENB + (i + k * last.P.vlmax) * last.P.esz

\* C22: every register element an accepted segment load or store
\* accesses lies in the registers vd .. vd + nf * ceil(EMUL) - 1, none of
\* them beyond register 31
C22_SegmentInsideGroups ==
    SegmentExecuted(SegmentOps) =>
        LET hi == last.P.vd + last.P.nf
                     * CeilEmul(EmulExp(vtype, 8 * last.P.esz))
        IN /\ hi <= NVPR
           /\ \A p \in SegmentPairs :
                 /\ FieldByte(p[1], p[2]) >= last.P.vd * VLENB
                 /\ FieldByte(p[1], p[2]) + last.P.esz <= hi * VLENB

\* C23: distinct pairs (element, field) of an accepted segment load are
\* written to distinct destination register elements
C23_SegmentDistinct ==
    SegmentExecuted({"vle", "vlse"}) =>
        \A p, q \in SegmentPairs :
            p # q => FieldByte(p[1], p[2]) # FieldByte(q[1], q[2])

(* ------------------------------------------------------------------ *)
(* Properties of the instructions executed with vl = 0                 *)
(* ------------------------------------------------------------------ *)
\* the step retires an accepted instruction that found vl = 0
Vl0Step == vl = 0 /\ ~vtype.vill /\ last'.op # "none" /\ last'.accepted

\* C30: an accepted vector instruction that operates under vl and finds
\* vl = 0 changes no vector register, no guest memory, neither vl nor
\* vxsat, and raises no memory fault
C30_Vl0NoEffect ==
    [][Vl0Step =>
          /\ vreg' = vreg
          /\ mem' = mem
          /\ vl' = vl
          /\ vxsat' = vxsat
          /\ ("fault" \in DOMAIN last') => ~last'.fault]_vars
\* an accepted unit-stride fault-only-first load found vl = 0 while no
\* page was mapped
C30_Witness ==
    /\ last.op = "vleff" /\ last.accepted /\ last.vl0 = 0
    /\ ~vtype.vill
    /\ mapped = {}

=============================================================================
